---- MODULE Spec2Model ----
(***************************************************************************)
(* AsthmaCare client: the air-quality freshness cache (checkAirQuality and *)
(* its helpers, src/scripts/utils/api.js:20-120) and the asthma control    *)
(* score (calculateAsthmaControlScore, src/scripts/utils/api.js:886-938).  *)
(*                                                                         *)
(* Time is the JavaScript clock, in milliseconds.  A string is a sequence  *)
(* of one-character strings, so that toLowerCase is computed.              *)
(***************************************************************************)
EXTENDS Integers, Sequences, FiniteSets, TLC

(***************************************************************************)
(* Program constants                                                       *)
(***************************************************************************)
MsPerMinute == 60000
MsPerDay == 86400000
CacheMinutes == 30
WindowDays == 7
PointsPerSeverity == 5
FullScore == 100
WellThreshold == 80
PartlyThreshold == 60

(***************************************************************************)
(* Bounds of the model                                                     *)
(***************************************************************************)
MaxRows == 2
MaxMinutes == 31
MaxSymptoms == 3
MaxRepeat == 10
MaxFragments == 2
MaxContext == 1
MaxChatRows == 2
MaxDbRows == 1
MaxCallbacks == 2
MaxHref == 64

\* the two callers whose checkAirQuality calls may interleave
Calls == {1, 2}
\* the clock is sampled around the freshness window
TickMinutes == {29, 30, 31}

Null == [kind |-> "null"]
\* SQL NULL in a column of identifiers
NullId == "NULL"

\* the users of the identity provider
Users == {"A", "B"}
User(id) == [kind |-> "user", id |-> id]

VARIABLES now, cache, calls, symptoms, medications, score

\* the mock responder: the message it is given and its reply
VARIABLES msg, reply

\* the chat: the chat_history table and the sendChatMessage calls in progress
VARIABLES chat_history, chats

\* the owner-scoped store: the user the identity provider resolves, the tables,
\* the health-reports bucket, and the last CRUD operation with its store calls
VARIABLES session, db, storage, op

\* the AuthManager: its fields, whether its listener is registered with the
\* identity provider, where init stands, and what the last handler did
VARIABLES currentUser, authCallbacks, initialized, listening, initPc, handled

\* the window: window.location.href
VARIABLES href

respondVars == <<msg, reply>>
chatVars == <<chat_history, chats>>
crudVars == <<session, db, storage, op>>
authVars == <<currentUser, authCallbacks, initialized, listening, initPc, handled, href>>
laterVars == <<respondVars, chatVars, crudVars, authVars>>

vars == <<now, cache, calls, symptoms, medications, score, laterVars>>
scoreVars == <<symptoms, medications, score>>

\* the callers whose sendChatMessage calls may interleave
ChatCalls == {1, 2}

IdleChat == [pc |-> "idle", message |-> <<>>, context |-> <<>>, messages |-> <<>>,
             response |-> Null, insert |-> Null, result |-> Null, console |-> <<>>]

\* the tables whose rows belong to a user (chat_history is kept apart)
OwnerTables == {"user_profiles", "health_reports", "appointments", "symptoms",
                "medications", "emergency_contacts", "notifications"}
EmptyDb == [t \in OwnerTables |-> {}]
\* the page the application is opened at
HomePage == <<"h", "t", "t", "p", ":", "/", "/", "h", "/", "d", "?", "a", "=", "1", "&", "b">>
NoHandler == [kind |-> "none", event |-> "", user |-> Null, observer |-> "",
              before |-> <<>>, wasInitialized |-> FALSE, calls |-> <<>>, threw |-> FALSE,
              requests |-> <<>>, result |-> Null, console |-> <<>>]
NoOp == [name |-> "none", user |-> Null, arg |-> 0, requests |-> <<>>,
         result |-> Null, console |-> <<>>]


(***************************************************************************)
(* Strings and String.prototype.toLowerCase                                *)
(***************************************************************************)
toLowerChar(ch) ==
    CASE ch = "A" -> "a"
      [] ch = "B" -> "b"
      [] ch = "C" -> "c"
      [] ch = "D" -> "d"
      [] ch = "E" -> "e"
      [] ch = "F" -> "f"
      [] ch = "G" -> "g"
      [] ch = "H" -> "h"
      [] ch = "I" -> "i"
      [] ch = "J" -> "j"
      [] ch = "K" -> "k"
      [] ch = "L" -> "l"
      [] ch = "M" -> "m"
      [] ch = "N" -> "n"
      [] ch = "O" -> "o"
      [] ch = "P" -> "p"
      [] ch = "Q" -> "q"
      [] ch = "R" -> "r"
      [] ch = "S" -> "s"
      [] ch = "T" -> "t"
      [] ch = "U" -> "u"
      [] ch = "V" -> "v"
      [] ch = "W" -> "w"
      [] ch = "X" -> "x"
      [] ch = "Y" -> "y"
      [] ch = "Z" -> "z"
      [] OTHER -> ch

toLowerCase(s) == [i \in DOMAIN s |-> toLowerChar(s[i])]

\* the locations callers pass: one place in three letter cases, and another
Locations == {<<"a", "b">>, <<"A", "B">>, <<"b", "a">>}

(***************************************************************************)
(* The external air-quality service: the response to fetch(url) for        *)
(* q = location.  A payload names the place it was asked about.            *)
(***************************************************************************)
Payload(q) == [kind |-> "payload", q |-> q]

NetworkError == [kind |-> "error", message |-> "Failed to fetch"]
ApiError == [kind |-> "error", message |-> "Air quality API error: 500"]
StorageError == [kind |-> "error", message |-> "insert failed"]

\* fetch rejects, or answers not ok (line 35 throws), or answers with JSON
FetchOutcomes(q) ==
    {[ok |-> FALSE, error |-> NetworkError, data |-> Null],
     [ok |-> FALSE, error |-> ApiError, data |-> Null]}
    \cup {[ok |-> TRUE, error |-> Null, data |-> Payload(q)]}

\* isDataFresh with the window closed at its end (<= for <)
isDataFresh_inclusive(t, timestamp, minutes) ==
    (t - timestamp) <= minutes * MsPerMinute

(***************************************************************************)
(* isDataFresh(timestamp, minutes), evaluated when the clock reads t:      *)
(* (now - dataTime) / (1000 * 60) < minutes                                *)
(***************************************************************************)
isDataFresh(t, timestamp, minutes) ==
    (t - timestamp) < minutes * MsPerMinute

\* getCachedAirQuality ordering by created_at ascending: the oldest row
getCachedAirQuality_oldest(location, fault) ==
    LET key == toLowerCase(location)
        match == {i \in DOMAIN cache : cache[i].location = key}
        top == {i \in match : \A j \in match : cache[j].created_at >= cache[i].created_at}
    IN  IF fault
        THEN {[data |-> Null, log |-> <<"Cache lookup failed">>]}
        ELSE IF match = {}
             THEN {[data |-> Null, log |-> <<>>]}
             ELSE {[data |-> cache[i], log |-> <<>>] : i \in top}

\* getCachedAirQuality without the .eq('location', ...) filter
getCachedAirQuality_anyLocation(location, fault) ==
    LET match == DOMAIN cache
        top == {i \in match : \A j \in match : cache[j].created_at <= cache[i].created_at}
    IN  IF fault
        THEN {[data |-> Null, log |-> <<"Cache lookup failed">>]}
        ELSE IF match = {}
             THEN {[data |-> Null, log |-> <<>>]}
             ELSE {[data |-> cache[i], log |-> <<>>] : i \in top}

(***************************************************************************)
(* getCachedAirQuality(location): the rows the query                       *)
(* .eq('location', lower).order('created_at', desc).limit(1).single()      *)
(* may return.  No row gives PGRST116 and data null; any other store error *)
(* is thrown, logged and turned into null.  Rows with equal created_at are *)
(* ordered by the store as it pleases.                                     *)
(***************************************************************************)
getCachedAirQuality(location, fault) ==
    LET key == toLowerCase(location)
        match == {i \in DOMAIN cache : cache[i].location = key}
        top == {i \in match : \A j \in match : cache[j].created_at <= cache[i].created_at}
    IN  IF fault
        THEN {[data |-> Null, log |-> <<"Cache lookup failed">>]}
        ELSE IF match = {}
             THEN {[data |-> Null, log |-> <<>>]}
             ELSE {[data |-> cache[i], log |-> <<>>] : i \in top}

\* cacheAirQuality storing the location as the caller spelled it
cacheAirQuality_asSpelled(location, data, outcome) ==
    LET row == [location |-> location, data |-> data, created_at |-> now]
    IN  CASE outcome = "ok" -> [rows |-> Append(cache, row), log |-> <<>>, threw |-> FALSE]
          [] outcome = "error" -> [rows |-> cache, log |-> <<>>, threw |-> FALSE]
          [] outcome = "raise" -> [rows |-> cache, log |-> <<"Cache storage failed">>, threw |-> FALSE]

\* cacheAirQuality rethrowing what it caught
cacheAirQuality_rethrow(location, data, outcome) ==
    LET row == [location |-> toLowerCase(location), data |-> data, created_at |-> now]
    IN  CASE outcome = "ok" -> [rows |-> Append(cache, row), log |-> <<>>, threw |-> FALSE]
          [] outcome = "error" -> [rows |-> cache, log |-> <<>>, threw |-> FALSE]
          [] outcome = "raise" -> [rows |-> cache, log |-> <<"Cache storage failed">>, threw |-> TRUE]

(***************************************************************************)
(* cacheAirQuality(location, data): outcome "ok" stores the row, "error"   *)
(* is an error returned by the store (the result is not looked at),        *)
(* "raise" is an exception of the insert call, caught and logged.          *)
(***************************************************************************)
cacheAirQuality(location, data, outcome) ==
    LET row == [location |-> toLowerCase(location), data |-> data, created_at |-> now]
    IN  CASE outcome = "ok" -> [rows |-> Append(cache, row), log |-> <<>>, threw |-> FALSE]
          [] outcome = "error" -> [rows |-> cache, log |-> <<>>, threw |-> FALSE]
          [] outcome = "raise" -> [rows |-> cache, log |-> <<"Cache storage failed">>, threw |-> FALSE]

(***************************************************************************)
(* checkAirQuality(location), one action per await                         *)
(***************************************************************************)
Return(v) == [kind |-> "return", value |-> v]
Throw(e) == [kind |-> "throw", value |-> e]

IdleCall == [pc |-> "idle", location |-> <<>>, data |-> Null, error |-> Null,
             result |-> Null, console |-> <<>>, fetches |-> 0]

\* the parts of the state a specification does not use, all but those of S,
\* are as constructed
IdleExcept(S) ==
    /\ IF "cache" \in S THEN TRUE
       ELSE now = 0 /\ cache = <<>> /\ calls = [c \in Calls |-> IdleCall]
    /\ IF "score" \in S THEN TRUE
       ELSE symptoms = <<>> /\ medications = <<>> /\ score = Null
    /\ IF "respond" \in S THEN TRUE ELSE msg = <<>> /\ reply = Null
    /\ IF "chat" \in S THEN TRUE
       ELSE chat_history = <<>> /\ chats = [c \in ChatCalls |-> IdleChat]
    /\ IF "crud" \in S THEN TRUE
       ELSE session = Null /\ db = EmptyDb /\ storage = {} /\ op = NoOp
    /\ IF "auth" \in S THEN TRUE
       ELSE /\ currentUser = Null
            /\ authCallbacks = <<>>
            /\ initialized = FALSE
            /\ listening = FALSE
            /\ initPc = "getSession"
            /\ handled = NoHandler
            /\ href = HomePage

\* the caller invokes checkAirQuality: the first cache query is issued
Start(c, location) ==
    /\ calls[c].pc = "idle"
    /\ calls' = [calls EXCEPT ![c] = [IdleCall EXCEPT !.pc = "lookup", !.location = location]]
    /\ UNCHANGED <<now, cache, scoreVars, laterVars>>

\* lines 23-33: the cached row is back; fresh: return it, else issue the fetch
Lookup(c) ==
    /\ calls[c].pc = "lookup"
    /\ \E fault \in BOOLEAN :
       \E r \in getCachedAirQuality(calls[c].location, fault) :
          IF r.data # Null /\ isDataFresh(now, r.data.created_at, CacheMinutes)
          THEN calls' = [calls EXCEPT ![c].pc = "done",
                            ![c].result = Return(r.data.data),
                            ![c].console = @ \o r.log \o <<"Using cached air quality data">>]
          ELSE calls' = [calls EXCEPT ![c].pc = "fetch",
                            ![c].fetches = @ + 1,
                            ![c].console = @ \o r.log]
    /\ UNCHANGED <<now, cache, scoreVars, laterVars>>

\* lines 33-42 and 47-51: the response is back; ok: issue the cache insert,
\* else the catch block issues the fallback cache query
Fetch(c) ==
    /\ calls[c].pc = "fetch"
    /\ \E o \in FetchOutcomes(calls[c].location) :
          IF o.ok
          THEN calls' = [calls EXCEPT ![c].pc = "insert", ![c].data = o.data]
          ELSE calls' = [calls EXCEPT ![c].pc = "fallback", ![c].error = o.error,
                            ![c].console = @ \o <<"Air quality fetch failed">>]
    /\ UNCHANGED <<now, cache, scoreVars, laterVars>>

\* lines 42-45: cacheAirQuality is back; return the fetched data
Insert(c) ==
    /\ calls[c].pc = "insert"
    /\ \E outcome \in {"ok", "error", "raise"} :
          /\ outcome = "ok" => Len(cache) < MaxRows
          /\ LET r == cacheAirQuality(calls[c].location, calls[c].data, outcome)
             IN  /\ cache' = r.rows
                 /\ IF r.threw
                    THEN calls' = [calls EXCEPT ![c].pc = "fallback", ![c].error = StorageError,
                                      ![c].console = @ \o r.log \o <<"Air quality fetch failed">>]
                    ELSE calls' = [calls EXCEPT ![c].pc = "done",
                                      ![c].result = Return(calls[c].data),
                                      ![c].console = @ \o r.log \o <<"Air quality data fetched successfully">>]
    /\ UNCHANGED <<now, scoreVars, laterVars>>

\* lines 51-57: the fallback row is back; return it whatever its age, else rethrow
Fallback(c) ==
    /\ calls[c].pc = "fallback"
    /\ \E fault \in BOOLEAN :
       \E r \in getCachedAirQuality(calls[c].location, fault) :
          IF r.data # Null
          THEN calls' = [calls EXCEPT ![c].pc = "done",
                            ![c].result = Return(r.data.data),
                            ![c].console = @ \o r.log \o <<"Using stale cached data as fallback">>]
          ELSE calls' = [calls EXCEPT ![c].pc = "done",
                            ![c].result = Throw(calls[c].error),
                            ![c].console = @ \o r.log]
    /\ UNCHANGED <<now, cache, scoreVars, laterVars>>

\* the caller has the result; the next call may start
Finish(c) ==
    /\ calls[c].pc = "done"
    /\ calls' = [calls EXCEPT ![c] = IdleCall]
    /\ UNCHANGED <<now, cache, scoreVars, laterVars>>

\* the clock advances
Tick(m) ==
    /\ now + m * MsPerMinute <= MaxMinutes * MsPerMinute
    /\ now' = now + m * MsPerMinute
    /\ UNCHANGED <<cache, calls, scoreVars, laterVars>>

(***************************************************************************)
(* calculateAsthmaControlScore(symptoms, medications), evaluated when the  *)
(* clock reads t                                                           *)
(***************************************************************************)
EmptyRecommendations ==
    <<"Continue current management plan",
      "Regular check-ups with healthcare provider">>

\* the window test with the boundary left out (< for <=)
isRecent_exclusive(t, s) == (t - s.recorded_at) < WindowDays * MsPerDay

\* the window test with the operands of the difference exchanged
isRecent_reversed(t, s) == (s.recorded_at - t) <= WindowDays * MsPerDay

\* line 896-899: daysDiff = (now - recorded_at) / (1000*60*60*24); daysDiff <= 7
isRecent(t, s) == (t - s.recorded_at) <= WindowDays * MsPerDay

\* lines 902-904: totalScore -= symptom.severity * 5, entry by entry
RECURSIVE deduct(_, _)
deduct(totalScore, recentSymptoms) ==
    IF recentSymptoms = <<>>
    THEN totalScore
    ELSE deduct(totalScore - Head(recentSymptoms).severity * PointsPerSeverity,
                Tail(recentSymptoms))

\* controlLevel with strict thresholds (> for >=)
controlLevel_strict(totalScore) ==
    IF totalScore > WellThreshold
    THEN [level |-> "Well Controlled",
          recommendations |-> <<"Continue current management plan",
                                "Monitor for any changes in symptoms",
                                "Regular check-ups with healthcare provider">>]
    ELSE IF totalScore > PartlyThreshold
    THEN [level |-> "Partly Controlled",
          recommendations |-> <<"Review medication adherence",
                                "Identify and avoid triggers",
                                "Consider adjusting treatment plan with doctor">>]
    ELSE [level |-> "Poorly Controlled",
          recommendations |-> <<"Schedule urgent appointment with healthcare provider",
                                "Review and update asthma action plan",
                                "Ensure rescue medications are accessible",
                                "Consider step-up therapy">>]

\* controlLevel with the first list pasted into the second branch
controlLevel_pasted(totalScore) ==
    IF totalScore >= WellThreshold
    THEN [level |-> "Well Controlled",
          recommendations |-> <<"Continue current management plan",
                                "Monitor for any changes in symptoms",
                                "Regular check-ups with healthcare provider">>]
    ELSE IF totalScore >= PartlyThreshold
    THEN [level |-> "Partly Controlled",
          recommendations |-> <<"Continue current management plan",
                                "Monitor for any changes in symptoms",
                                "Regular check-ups with healthcare provider">>]
    ELSE [level |-> "Poorly Controlled",
          recommendations |-> <<"Schedule urgent appointment with healthcare provider",
                                "Review and update asthma action plan",
                                "Ensure rescue medications are accessible",
                                "Consider step-up therapy">>]

\* lines 907-931: level and recommendations from the total, before the clamp
controlLevel(totalScore) ==
    IF totalScore >= WellThreshold
    THEN [level |-> "Well Controlled",
          recommendations |-> <<"Continue current management plan",
                                "Monitor for any changes in symptoms",
                                "Regular check-ups with healthcare provider">>]
    ELSE IF totalScore >= PartlyThreshold
    THEN [level |-> "Partly Controlled",
          recommendations |-> <<"Review medication adherence",
                                "Identify and avoid triggers",
                                "Consider adjusting treatment plan with doctor">>]
    ELSE [level |-> "Poorly Controlled",
          recommendations |-> <<"Schedule urgent appointment with healthcare provider",
                                "Review and update asthma action plan",
                                "Ensure rescue medications are accessible",
                                "Consider step-up therapy">>]

Max(a, b) == IF a >= b THEN a ELSE b

\* calculateAsthmaControlScore without the early return for no symptoms
calculateAsthmaControlScore_noEarlyReturn(syms, meds, t) ==
    LET recentSymptoms == SelectSeq(syms, LAMBDA s : isRecent(t, s))
        totalScore == deduct(FullScore, recentSymptoms)
        c == controlLevel(totalScore)
    IN  [score |-> Max(0, totalScore), level |-> c.level,
         recommendations |-> c.recommendations]

calculateAsthmaControlScore(syms, meds, t) ==
    IF Len(syms) = 0
    THEN [score |-> FullScore, level |-> "Well Controlled",
          recommendations |-> EmptyRecommendations]
    ELSE LET recentSymptoms == SelectSeq(syms, LAMBDA s : isRecent(t, s))
             totalScore == deduct(FullScore, recentSymptoms)
             c == controlLevel(totalScore)
         IN  [score |-> Max(0, totalScore), level |-> c.level,
              recommendations |-> c.recommendations]

\* the inputs: the clock, and entries recorded now, exactly 7 days ago and
\* one millisecond earlier, of every severity the symptoms table allows
ScoreNow == WindowDays * MsPerDay + 1
RecordedAts == {0, 1, ScoreNow}
Severities == 1..5
Entries == {[severity |-> v, recorded_at |-> r] : v \in Severities, r \in RecordedAts}

SeqsUpTo(S, n) == UNION {[1..k -> S] : k \in 0..n}
Repeat(e, n) == [i \in 1..n |-> e]

\* every sequence of up to MaxSymptoms entries, and longer runs of one entry
SymptomInputs ==
    SeqsUpTo(Entries, MaxSymptoms)
    \cup {Repeat(e, n) : e \in Entries, n \in (MaxSymptoms + 1)..MaxRepeat}
MedicationInputs ==
    {<<>>, <<[medication_name |-> "salbutamol", taken_at |-> ScoreNow]>>}

\* a caller evaluates calculateAsthmaControlScore(symptoms, medications)
Compute ==
    /\ score = Null
    /\ score' = calculateAsthmaControlScore(symptoms, medications, now)
    /\ UNCHANGED <<now, cache, calls, symptoms, medications, laterVars>>

ScoreInit ==
    /\ now = ScoreNow
    /\ cache = <<>>
    /\ calls = [c \in Calls |-> IdleCall]
    /\ symptoms \in SymptomInputs
    /\ medications \in MedicationInputs
    /\ score = Null
    /\ IdleExcept({"cache", "score"})

ScoreNext == Compute

ScoreSpec == ScoreInit /\ [][ScoreNext]_vars

Init ==
    /\ now = 0
    /\ cache = <<>>
    /\ calls = [c \in Calls |-> IdleCall]
    /\ symptoms = <<>>
    /\ medications = <<>>
    /\ score = Null
    /\ IdleExcept({"cache", "score"})

Next ==
    \/ \E c \in Calls, location \in Locations : Start(c, location)
    \/ \E c \in Calls : Lookup(c)
    \/ \E c \in Calls : Fetch(c)
    \/ \E c \in Calls : Insert(c)
    \/ \E c \in Calls : Fallback(c)
    \/ \E c \in Calls : Finish(c)
    \/ \E m \in TickMinutes : Tick(m)

Spec == Init /\ [][Next]_vars

(***************************************************************************)
(* Properties of the freshness cache                                       *)
(***************************************************************************)
WindowMs == CacheMinutes * MsPerMinute

\* the rows stored for a key, and the most recent among them
KeyRows(key) == {i \in DOMAIN cache : cache[i].location = key}
Newest(key) == {i \in KeyRows(key) : \A j \in KeyRows(key) : cache[j].created_at <= cache[i].created_at}
KeyOf(c) == toLowerCase(calls[c].location)

\* the most recent row of call c's location is younger than 30 minutes
FreshEntryExists(c) == \E i \in Newest(KeyOf(c)) : now - cache[i].created_at < WindowMs

\* call c takes the step that ends its wait in state pc
Leaves(c, pc) == calls[c].pc = pc /\ calls'[c].pc # pc

\* in this step call c has returned a most recent row's payload, no fetch made
ServedFromCache(c) ==
    /\ calls'[c].pc = "done"
    /\ calls'[c].fetches = 0
    /\ \E i \in Newest(KeyOf(c)) : calls'[c].result = Return(cache[i].data)

\* in this step call c has invoked the external fetch
FetchInvoked(c) == calls'[c].pc = "fetch" /\ calls'[c].fetches = 1

\* in this step call c's cache query failed (line 82 logged it)
LookupFailed(c) ==
    /\ Len(calls'[c].console) > Len(calls[c].console)
    /\ calls'[c].console[Len(calls[c].console) + 1] = "Cache lookup failed"

\* C1 as stated: checkAirQuality serves the most recent row without fetching if
\* and only if that row exists and is younger than 30 minutes.
C1_Original ==
    [][\A c \in Calls : Leaves(c, "lookup") =>
          (ServedFromCache(c) <=> FreshEntryExists(c))]_vars

\* C1 amended: checkAirQuality serves the most recent row's payload without
\* fetching if and only if its cache query succeeds and that row exists and is
\* younger than 30 minutes; otherwise it invokes the fetch.  A row aged 29
\* minutes is served when the query succeeds, one aged 30 or 31 minutes never.
C1_FreshServedIffLookupSucceeds ==
    [][\A c \in Calls : Leaves(c, "lookup") =>
          /\ ServedFromCache(c) <=> (FreshEntryExists(c) /\ ~LookupFailed(c))
          /\ ~ServedFromCache(c) <=> FetchInvoked(c)
          /\ \A i \in Newest(KeyOf(c)) :
                /\ (now - cache[i].created_at = 29 * MsPerMinute /\ ~LookupFailed(c))
                      => ServedFromCache(c)
                /\ (now - cache[i].created_at \in {30 * MsPerMinute, 31 * MsPerMinute})
                      => FetchInvoked(c)]_vars

\* a call has been served, without a fetch, from a row aged 29 minutes
C1_Witness ==
    \E c \in Calls :
        /\ calls[c].pc = "done"
        /\ calls[c].fetches = 0
        /\ \E i \in Newest(KeyOf(c)) :
              /\ calls[c].result = Return(cache[i].data)
              /\ now - cache[i].created_at = 29 * MsPerMinute

FetchErrors == {NetworkError, ApiError}

\* C2 as stated: after a failed fetch the call returns the most recent row's
\* payload if any row exists for the location, and throws the fetch error only
\* when none exists.
C2_Original ==
    [][\A c \in Calls : Leaves(c, "fallback") =>
          /\ calls'[c].pc = "done"
          /\ IF KeyRows(KeyOf(c)) # {}
             THEN \E i \in Newest(KeyOf(c)) : calls'[c].result = Return(cache[i].data)
             ELSE calls'[c].result = Throw(calls[c].error)]_vars

\* C2 amended: after a failed fetch the call returns the most recent row's
\* payload, whatever its age, if the fallback cache query succeeds and a row
\* exists for the location; it throws the original fetch error when no row
\* exists or the fallback query itself fails.
C2_StaleFallbackIfLookupSucceeds ==
    [][\A c \in Calls : Leaves(c, "fallback") =>
          /\ calls'[c].pc = "done"
          /\ calls[c].error \in FetchErrors
          /\ IF KeyRows(KeyOf(c)) # {} /\ ~LookupFailed(c)
             THEN \E i \in Newest(KeyOf(c)) : calls'[c].result = Return(cache[i].data)
             ELSE calls'[c].result = Throw(calls[c].error)]_vars

\* a call whose fetch failed has returned the row of its location, which is
\* older than the window
C2_Witness ==
    \E c \in Calls :
        /\ calls[c].pc = "done"
        /\ calls[c].error \in FetchErrors
        /\ calls[c].fetches = 1
        /\ \E i \in Newest(KeyOf(c)) :
              /\ calls[c].result = Return(cache[i].data)
              /\ now - cache[i].created_at >= WindowMs

\* the row cacheAirQuality is to store for call c
NewRow(c) == [location |-> KeyOf(c), data |-> calls[c].data, created_at |-> now]

\* some row of call c's location is younger than 30 minutes
FreshRowExists(c) == \E i \in KeyRows(KeyOf(c)) : now - cache[i].created_at < WindowMs

\* C3 as stated: after a successful fetch the call returns the fetched payload
\* and a row holding it is inserted under the lower-cased location, and a
\* later call within 30 minutes, in any letter case, is served from the cache
\* without fetching.
C3_Original ==
    [][\A c \in Calls :
          /\ Leaves(c, "insert") =>
                /\ calls'[c].pc = "done"
                /\ calls'[c].result = Return(calls[c].data)
                /\ cache' = Append(cache, NewRow(c))
          /\ (Leaves(c, "lookup") /\ FreshRowExists(c)) => ServedFromCache(c)]_vars

\* C3 amended: after a successful fetch the call returns exactly the fetched
\* payload and, unless the cache insert fails, one row holding that payload is
\* appended under the lower-cased location; a later call for the location in
\* any letter case that finds a row younger than 30 minutes and whose cache
\* query succeeds is served, without fetching, from the most recent row.
C3_FetchedThenCached ==
    [][\A c \in Calls :
          /\ Leaves(c, "insert") =>
                /\ calls'[c].pc = "done"
                /\ calls'[c].result = Return(calls[c].data)
                /\ cache' = cache \/ cache' = Append(cache, NewRow(c))
          /\ (Leaves(c, "lookup") /\ FreshRowExists(c) /\ ~LookupFailed(c))
                => ServedFromCache(c)]_vars

\* a call has been served from a row that another spelling of the location
\* had fetched and stored
C3_Witness ==
    \E c \in Calls :
        /\ calls[c].pc = "done"
        /\ calls[c].fetches = 0
        /\ \E i \in Newest(KeyOf(c)) :
              /\ calls[c].result = Return(cache[i].data)
              /\ cache[i].data.q # calls[c].location
              /\ calls[c].location # KeyOf(c)

\* C4: a failed cache insert never fails checkAirQuality: the call that
\* awaits cacheAirQuality always ends by returning the fetched payload, and an
\* insert that stores nothing leaves the cache as it was.
C4_InsertFailureSwallowed ==
    [][\A c \in Calls : Leaves(c, "insert") =>
          /\ calls'[c].pc = "done"
          /\ calls'[c].result = Return(calls[c].data)
          /\ calls[c].data # Null
          /\ (cache' # Append(cache, NewRow(c))) => cache' = cache]_vars

\* a call has returned the fetched payload after its insert raised
C4_Witness ==
    \E c \in Calls :
        /\ calls[c].pc = "done"
        /\ calls[c].console = <<"Cache storage failed", "Air quality data fetched successfully">>
        /\ calls[c].result = Return(calls[c].data)
        /\ calls[c].data # Null
        /\ KeyRows(KeyOf(c)) = {}

\* C5: however two calls interleave, a call that returns, returns a payload
\* of its own location: the one it fetched or one stored under its key.
C5_OwnKeyPayload ==
    \A c \in Calls :
        (calls[c].pc = "done" /\ calls[c].result.kind = "return") =>
            /\ toLowerCase(calls[c].result.value.q) = KeyOf(c)
            /\ \/ calls[c].result.value = calls[c].data
               \/ \E i \in KeyRows(KeyOf(c)) : cache[i].data = calls[c].result.value

\* both calls, for the same location, missed, fetched and inserted: two rows
\* of one key stored less than a window apart
C5_Witness ==
    /\ \A c \in Calls :
          /\ calls[c].pc = "done"
          /\ calls[c].fetches = 1
          /\ calls[c].console = <<"Air quality data fetched successfully">>
    /\ KeyOf(1) = KeyOf(2)
    /\ Len(cache) = 2
    /\ KeyRows(KeyOf(1)) = {1, 2}
    /\ cache[2].created_at - cache[1].created_at < WindowMs

(***************************************************************************)
(* Properties of the asthma control score                                  *)
(***************************************************************************)
SevenDaysMs == 7 * 24 * 60 * 60 * 1000

\* the entries recorded within the last 7 days, the boundary included
InWindow == {i \in DOMAIN symptoms : symptoms[i].recorded_at >= now - SevenDaysMs}
AllOlder == \A i \in DOMAIN symptoms : symptoms[i].recorded_at < now - SevenDaysMs

RECURSIVE SeveritySum(_)
SeveritySum(I) ==
    IF I = {} THEN 0
    ELSE LET i == CHOOSE k \in I : TRUE IN symptoms[i].severity + SeveritySum(I \ {i})

Computed == score # Null

TwoItemList ==
    <<"Continue current management plan", "Regular check-ups with healthcare provider">>
WellList ==
    <<"Continue current management plan", "Monitor for any changes in symptoms",
      "Regular check-ups with healthcare provider">>
PartlyList ==
    <<"Review medication adherence", "Identify and avoid triggers",
      "Consider adjusting treatment plan with doctor">>
PoorlyList ==
    <<"Schedule urgent appointment with healthcare provider",
      "Review and update asthma action plan",
      "Ensure rescue medications are accessible", "Consider step-up therapy">>

LevelList(level) ==
    CASE level = "Well Controlled" -> WellList
      [] level = "Partly Controlled" -> PartlyList
      [] level = "Poorly Controlled" -> PoorlyList

\* C6: for a non-empty symptom sequence the score is
\* max(0, 100 - 5 * (sum of the severities recorded within the last 7 days,
\* the boundary included)), hence within 0..100; ten severity-5 entries in
\* the window give 0, one gives 75, severity 5 and severity 4 give 55.
C6_ScoreFormula ==
    (Computed /\ symptoms # <<>>) =>
        /\ score.score = (IF 100 - 5 * SeveritySum(InWindow) > 0
                          THEN 100 - 5 * SeveritySum(InWindow) ELSE 0)
        /\ score.score \in 0..100
        /\ \A r \in {now, now - SevenDaysMs} :
              /\ symptoms = [i \in 1..10 |-> [severity |-> 5, recorded_at |-> r]]
                    => score.score = 0
              /\ symptoms = <<[severity |-> 5, recorded_at |-> r]>> => score.score = 75
              /\ symptoms = <<[severity |-> 5, recorded_at |-> r],
                              [severity |-> 4, recorded_at |-> r]>> => score.score = 55

\* ten severity-5 entries recorded exactly 7 days ago have been scored 0
C6_Witness ==
    /\ Computed
    /\ symptoms = [i \in 1..10 |-> [severity |-> 5, recorded_at |-> now - SevenDaysMs]]
    /\ score.score = 0

\* C7: the level follows from the returned score: Well Controlled from 80,
\* Partly Controlled from 60 to below 80, Poorly Controlled below 60.
C7_LevelFromScore ==
    Computed =>
        score.level = (IF score.score >= 80 THEN "Well Controlled"
                       ELSE IF score.score >= 60 THEN "Partly Controlled"
                       ELSE "Poorly Controlled")

\* a score of exactly 60 has been classified Partly Controlled
C7_Witness ==
    /\ Computed
    /\ symptoms # <<>>
    /\ score.score = 60
    /\ score.level = "Partly Controlled"

\* C8 as stated: a non-empty sequence whose entries are all strictly older
\* than 7 days gets the result of the empty sequence, recommendations included.
C8_Original ==
    (Computed /\ symptoms # <<>> /\ AllOlder) =>
        score = [score |-> 100, level |-> "Well Controlled", recommendations |-> TwoItemList]

\* C8 amended: a non-empty sequence whose entries are all strictly older than
\* 7 days gets score 100 and level Well Controlled as the empty sequence
\* does, but with the three-item Well Controlled recommendations, not the
\* two-item list of the empty sequence.
C8_OldEntriesUncounted ==
    (Computed /\ symptoms # <<>> /\ AllOlder) =>
        /\ score.score = 100
        /\ score.level = "Well Controlled"
        /\ score.recommendations = WellList
        /\ score.recommendations # TwoItemList

\* several severe entries, all one millisecond older than 7 days, have been scored
C8_Witness ==
    /\ Computed
    /\ Len(symptoms) >= 2
    /\ AllOlder
    /\ \A i \in DOMAIN symptoms : symptoms[i].severity = 5
    /\ score.score = 100

\* the three lists differ and have three, three and four items
ListsDistinct ==
    /\ WellList # PartlyList /\ WellList # PoorlyList /\ PartlyList # PoorlyList
    /\ Len(WellList) = 3 /\ Len(PartlyList) = 3 /\ Len(PoorlyList) = 4

\* C9 as stated: the recommendations are the fixed list of the returned
\* level, for every input.
C9_Original ==
    Computed =>
        /\ score.recommendations = LevelList(score.level)
        /\ ListsDistinct

\* C9 amended: for a non-empty symptom sequence the recommendations are the
\* fixed list of the returned level; the three lists are pairwise distinct
\* and have three, three and four items.  (The empty sequence gets a fourth,
\* two-item list with level Well Controlled.)
C9_ListFromLevel ==
    (Computed /\ symptoms # <<>>) =>
        /\ score.recommendations = LevelList(score.level)
        /\ ListsDistinct
        /\ \A l \in {"Well Controlled", "Partly Controlled", "Poorly Controlled"} :
              \A k \in {100, 80, 79, 60, 59, 0} :
                 controlLevel(k).level = l => controlLevel(k).recommendations = LevelList(l)

\* a Partly Controlled result carries the three-item Partly list
C9_Witness ==
    /\ Computed
    /\ symptoms # <<>>
    /\ score.level = "Partly Controlled"
    /\ score.recommendations = PartlyList

\* C10: the empty sequence gets score 100, Well Controlled and the fixed
\* two-item list, whatever the medications argument.
C10_EmptyInput ==
    (Computed /\ symptoms = <<>>) =>
        /\ score.score = 100
        /\ score.level = "Well Controlled"
        /\ score.recommendations = TwoItemList
        /\ Len(score.recommendations) = 2

\* the empty sequence has been scored with a non-empty medications argument
C10_Witness ==
    /\ Computed
    /\ symptoms = <<>>
    /\ medications # <<>>
    /\ score.score = 100

(***************************************************************************)
(* The mock responder: simulateAIResponse(message),                        *)
(* src/scripts/utils/api.js:171-208.  A response is named by the opening   *)
(* words of its fixed text.                                                *)
(***************************************************************************)
Responses ==
    [emergency |-> "This sounds like a medical emergency.",
     medication |-> "For inhaler and medication questions,",
     trigger |-> "Common asthma triggers include",
     exercise |-> "Exercise-induced asthma is manageable!",
     airQuality |-> "Poor air quality can definitely trigger asthma symptoms.",
     stress |-> "Stress and anxiety can indeed trigger asthma symptoms.",
     diet |-> "While food allergies can trigger asthma in some people,",
     default |-> "Thank you for your question about asthma management."]

\* String.prototype.includes: k occurs in s as a substring
includes(s, k) ==
    \E i \in 1..(Len(s) - Len(k) + 1) : SubSeq(s, i, i + Len(k) - 1) = k

\* the keywords of lines 178-202, as the code spells them
Keywords ==
    [emergency |-> <<"e", "m", "e", "r", "g", "e", "n", "c", "y">>,
     cantBreathe |-> <<"c", "a", "n", "'", "t", " ", "b", "r", "e", "a", "t", "h", "e">>,
     severe |-> <<"s", "e", "v", "e", "r", "e">>,
     inhaler |-> <<"i", "n", "h", "a", "l", "e", "r">>,
     medication |-> <<"m", "e", "d", "i", "c", "a", "t", "i", "o", "n">>,
     trigger |-> <<"t", "r", "i", "g", "g", "e", "r">>,
     allergen |-> <<"a", "l", "l", "e", "r", "g", "e", "n">>,
     exercise |-> <<"e", "x", "e", "r", "c", "i", "s", "e">>,
     activity |-> <<"a", "c", "t", "i", "v", "i", "t", "y">>,
     airQuality |-> <<"a", "i", "r", " ", "q", "u", "a", "l", "i", "t", "y">>,
     pollution |-> <<"p", "o", "l", "l", "u", "t", "i", "o", "n">>,
     stress |-> <<"s", "t", "r", "e", "s", "s">>,
     anxiety |-> <<"a", "n", "x", "i", "e", "t", "y">>,
     diet |-> <<"d", "i", "e", "t">>,
     food |-> <<"f", "o", "o", "d">>]

\* simulateAIResponse matching the message as typed (toLowerCase left out)
simulateAIResponse_asTyped(message) ==
    LET lowerMessage == message
    IN  IF includes(lowerMessage, Keywords.emergency) \/ includes(lowerMessage, Keywords.cantBreathe) \/ includes(lowerMessage, Keywords.severe)
        THEN Responses.emergency
        ELSE IF includes(lowerMessage, Keywords.inhaler) \/ includes(lowerMessage, Keywords.medication)
        THEN Responses.medication
        ELSE IF includes(lowerMessage, Keywords.trigger) \/ includes(lowerMessage, Keywords.allergen)
        THEN Responses.trigger
        ELSE IF includes(lowerMessage, Keywords.exercise) \/ includes(lowerMessage, Keywords.activity)
        THEN Responses.exercise
        ELSE IF includes(lowerMessage, Keywords.airQuality) \/ includes(lowerMessage, Keywords.pollution)
        THEN Responses.airQuality
        ELSE IF includes(lowerMessage, Keywords.stress) \/ includes(lowerMessage, Keywords.anxiety)
        THEN Responses.stress
        ELSE IF includes(lowerMessage, Keywords.diet) \/ includes(lowerMessage, Keywords.food)
        THEN Responses.diet
        ELSE Responses.default

\* lines 175-207: the keyword groups, tested in this order on the lower-cased message
simulateAIResponse(message) ==
    LET lowerMessage == toLowerCase(message)
    IN  IF includes(lowerMessage, Keywords.emergency) \/ includes(lowerMessage, Keywords.cantBreathe) \/ includes(lowerMessage, Keywords.severe)
        THEN Responses.emergency
        ELSE IF includes(lowerMessage, Keywords.inhaler) \/ includes(lowerMessage, Keywords.medication)
        THEN Responses.medication
        ELSE IF includes(lowerMessage, Keywords.trigger) \/ includes(lowerMessage, Keywords.allergen)
        THEN Responses.trigger
        ELSE IF includes(lowerMessage, Keywords.exercise) \/ includes(lowerMessage, Keywords.activity)
        THEN Responses.exercise
        ELSE IF includes(lowerMessage, Keywords.airQuality) \/ includes(lowerMessage, Keywords.pollution)
        THEN Responses.airQuality
        ELSE IF includes(lowerMessage, Keywords.stress) \/ includes(lowerMessage, Keywords.anxiety)
        THEN Responses.stress
        ELSE IF includes(lowerMessage, Keywords.diet) \/ includes(lowerMessage, Keywords.food)
        THEN Responses.diet
        ELSE Responses.default

\* the messages: up to MaxFragments pieces, each a keyword as the code spells
\* it, a keyword in other letter cases, or other words
Fragments ==
    {Keywords.emergency,
     Keywords.cantBreathe,
     Keywords.severe,
     Keywords.inhaler,
     Keywords.medication,
     Keywords.trigger,
     Keywords.allergen,
     Keywords.exercise,
     Keywords.activity,
     Keywords.airQuality,
     Keywords.pollution,
     Keywords.stress,
     Keywords.anxiety,
     Keywords.diet,
     Keywords.food,
     <<"I", " ">>,
     <<"!">>,
     <<"w", "h", "a", "t", " ">>,
     <<"s", " ", "m", "y", " ", "a", "s", "t", "h", "m", "a">>,
     <<"E", "M", "E", "R", "G", "E", "N", "C", "Y">>,
     <<"C", "a", "n", "'", "t", " ", "B", "r", "e", "a", "t", "h", "e">>,
     <<"S", "e", "V", "e", "R", "e">>,
     <<"T", "r", "i", "g", "g", "e", "r">>}

RECURSIVE Concat(_)
Concat(ss) == IF ss = <<>> THEN <<>> ELSE Head(ss) \o Concat(Tail(ss))

Messages == {Concat(ss) : ss \in SeqsUpTo(Fragments, MaxFragments)}
    \cup {<<"I", " ", "c", "a", "n", "'", "t", " ", "b", "r", "e", "a", "t", "h", "e", "!">>,
          <<"w", "h", "a", "t", " ", "t", "r", "i", "g", "g", "e", "r", "s", " ", "m", "y", " ", "a", "s", "t", "h", "m", "a">>}

\* the responder is given msg and replies
Respond ==
    /\ reply = Null
    /\ reply' = Return(simulateAIResponse(msg))
    /\ UNCHANGED <<now, cache, calls, scoreVars, msg, chatVars, crudVars, authVars>>

RespondInit ==
    /\ msg \in Messages
    /\ reply = Null
    /\ IdleExcept({"respond"})

RespondNext == Respond

RespondSpec == RespondInit /\ [][RespondNext]_vars

(***************************************************************************)
(* Properties of the mock responder                                        *)
(***************************************************************************)
UpperLetters == <<"A", "B", "C", "D", "E", "F", "G", "H", "I", "J", "K", "L", "M", "N", "O", "P", "Q", "R", "S", "T", "U", "V", "W", "X", "Y", "Z">>
LowerLetters == <<"a", "b", "c", "d", "e", "f", "g", "h", "i", "j", "k", "l", "m", "n", "o", "p", "q", "r", "s", "t", "u", "v", "w", "x", "y", "z">>

\* the two characters are the same letter, whatever their case
SameLetter(a, b) ==
    \/ a = b
    \/ \E i \in 1..26 : {a, b} = {UpperLetters[i], LowerLetters[i]}

\* k occurs in s, letter case disregarded
ContainsAnyCase(s, k) ==
    \E i \in 1..(Len(s) - Len(k) + 1) : \A j \in 1..Len(k) : SameLetter(s[i + j - 1], k[j])

\* the keyword groups in their fixed order, each with its response
KeywordGroups ==
    <<[keywords |-> {Keywords.emergency, Keywords.cantBreathe, Keywords.severe}, response |-> Responses.emergency],
      [keywords |-> {Keywords.inhaler, Keywords.medication}, response |-> Responses.medication],
      [keywords |-> {Keywords.trigger, Keywords.allergen}, response |-> Responses.trigger],
      [keywords |-> {Keywords.exercise, Keywords.activity}, response |-> Responses.exercise],
      [keywords |-> {Keywords.airQuality, Keywords.pollution}, response |-> Responses.airQuality],
      [keywords |-> {Keywords.stress, Keywords.anxiety}, response |-> Responses.stress],
      [keywords |-> {Keywords.diet, Keywords.food}, response |-> Responses.diet]>>

GroupMatches(g, s) == \E k \in KeywordGroups[g].keywords : ContainsAnyCase(s, k)

FirstMatchResponse(s) ==
    IF \E g \in DOMAIN KeywordGroups : GroupMatches(g, s)
    THEN LET g == CHOOSE h \in DOMAIN KeywordGroups :
                      GroupMatches(h, s) /\ \A e \in 1..(h - 1) : ~GroupMatches(e, s)
         IN  KeywordGroups[g].response
    ELSE Responses.default

\* C11: the reply is the response of the first keyword group, in the order
\* emergency, medication, trigger, exercise, air quality, stress, diet, that
\* has a keyword in the message, letter case disregarded, else the default;
\* a message with "can't breathe", "emergency" or "severe" in any letter case
\* gets the emergency response.
C11_FirstMatchWins ==
    reply # Null =>
        /\ reply = Return(FirstMatchResponse(msg))
        /\ (\E k \in {Keywords.emergency, Keywords.cantBreathe, Keywords.severe} : ContainsAnyCase(msg, k))
              => reply = Return(Responses.emergency)
        /\ msg = <<"I", " ", "c", "a", "n", "'", "t", " ", "b", "r", "e", "a", "t", "h", "e", "!">> => reply = Return(Responses.emergency)
        /\ msg = <<"w", "h", "a", "t", " ", "t", "r", "i", "g", "g", "e", "r", "s", " ", "m", "y", " ", "a", "s", "t", "h", "m", "a">> => reply = Return(Responses.trigger)

\* a message with an upper-case emergency keyword after a medication keyword
\* has got the emergency response
C11_Witness ==
    /\ reply = Return(Responses.emergency)
    /\ msg = Keywords.inhaler \o <<"E", "M", "E", "R", "G", "E", "N", "C", "Y">>

(***************************************************************************)
(* The chat: sendChatMessage and saveChatMessage,                          *)
(* src/scripts/utils/api.js:135-164 and 215-232.                           *)
(***************************************************************************)
SystemPrompt == <<"Y", "o", "u", " ", "a", "r", "e", " ", "a", " ", "h", "e", "l", "p", "f", "u", "l", " ", "A", "I", " ", "a", "s", "s", "i", "s", "t", "a", "n", "t">>
SorryError == [kind |-> "error", message |-> "Sorry, I encountered an error. Please try again."]

\* what a store call does: succeeds, answers with an error, or raises
StoreOutcomes == {"ok", "error", "raise"}

Turn(role, content) == [role |-> role, content |-> content]

\* the messages a caller sends, and the earlier turns it may pass as context
ChatMessages == {Keywords.inhaler, <<"E", "M", "E", "R", "G", "E", "N", "C", "Y">>, <<"h", "e", "l", "l", "o">>}
ChatContexts ==
    SeqsUpTo({Turn("user", Keywords.severe), Turn("assistant", Keywords.trigger)}, MaxContext)

\* saveChatMessage letting the failure of the insert out (no catch)
saveChatMessage_rethrow(userMessage, aiResponse, outcome) ==
    LET row == [user_id |-> NullId, user_message |-> userMessage, ai_response |-> aiResponse]
    IN  CASE outcome = "ok" -> [rows |-> Append(chat_history, row), log |-> <<>>, threw |-> FALSE]
          [] outcome = "error" -> [rows |-> chat_history, log |-> <<>>, threw |-> FALSE]
          [] outcome = "raise" -> [rows |-> chat_history, log |-> <<>>, threw |-> TRUE]

\* lines 215-232.  getUser() is not awaited: user is a promise, user.data is
\* undefined and user_id is null.  The answer of the insert is not looked at;
\* a raised failure is logged and not thrown.  (created_at, the wall clock as
\* text, is left out of the row.)
saveChatMessage(userMessage, aiResponse, outcome) ==
    LET row == [user_id |-> NullId, user_message |-> userMessage, ai_response |-> aiResponse]
    IN  CASE outcome = "ok" -> [rows |-> Append(chat_history, row), log |-> <<>>, threw |-> FALSE]
          [] outcome = "error" -> [rows |-> chat_history, log |-> <<>>, threw |-> FALSE]
          [] outcome = "raise" ->
                [rows |-> chat_history, log |-> <<"Failed to save chat history:">>, threw |-> FALSE]

\* lines 135-150: the call is entered and the messages list is built
SendChatMessage(c, message, context) ==
    /\ chats[c].pc = "idle"
    /\ chats' = [chats EXCEPT ![c] =
           [IdleChat EXCEPT !.pc = "respond", !.message = message, !.context = context,
                            !.messages = <<Turn("system", SystemPrompt)>> \o context
                                         \o <<Turn("user", message)>>]]
    /\ UNCHANGED <<now, cache, calls, scoreVars, respondVars, chat_history, crudVars, authVars>>

\* the responder handed the whole messages list, as one text
ChatRespond_fromMessages(c) ==
    /\ chats[c].pc = "respond"
    /\ chats' = [chats EXCEPT ![c].pc = "save",
           ![c].response = simulateAIResponse(
               Concat([i \in DOMAIN chats[c].messages |-> chats[c].messages[i].content]))]
    /\ UNCHANGED <<now, cache, calls, scoreVars, respondVars, chat_history, crudVars, authVars>>

\* line 153: the responder is awaited with the message alone
ChatRespond(c) ==
    /\ chats[c].pc = "respond"
    /\ chats' = [chats EXCEPT ![c].pc = "save",
                              ![c].response = simulateAIResponse(chats[c].message)]
    /\ UNCHANGED <<now, cache, calls, scoreVars, respondVars, chat_history, crudVars, authVars>>

\* lines 156-163: the exchange is saved and the response returned; anything
\* thrown inside the try is replaced by the apology
ChatSave(c) ==
    /\ chats[c].pc = "save"
    /\ \E outcome \in StoreOutcomes :
          /\ outcome = "ok" => Len(chat_history) < MaxChatRows
          /\ LET saved == saveChatMessage(chats[c].message, chats[c].response, outcome)
             IN  /\ chat_history' = saved.rows
                 /\ chats' = [chats EXCEPT
                        ![c].pc = "done",
                        ![c].insert = outcome,
                        ![c].console = IF saved.threw
                                       THEN saved.log \o <<"AI chat failed:">>
                                       ELSE saved.log,
                        ![c].result = IF saved.threw
                                      THEN Throw(SorryError)
                                      ELSE Return(chats[c].response)]
    /\ UNCHANGED <<now, cache, calls, scoreVars, respondVars, crudVars, authVars>>

\* the caller has its answer and may call again
ChatFinish(c) ==
    /\ chats[c].pc = "done"
    /\ chats' = [chats EXCEPT ![c] = IdleChat]
    /\ UNCHANGED <<now, cache, calls, scoreVars, respondVars, chat_history, crudVars, authVars>>

\* no exchange is saved yet; a user is signed in or none is
ChatInit ==
    /\ session \in {Null, User("A")}
    /\ db = EmptyDb
    /\ storage = {}
    /\ op = NoOp
    /\ IdleExcept({"crud"})

ChatNext ==
    \E c \in ChatCalls :
        \/ \E message \in ChatMessages, context \in ChatContexts : SendChatMessage(c, message, context)
        \/ ChatRespond(c)
        \/ ChatSave(c)
        \/ ChatFinish(c)

ChatSpec == ChatInit /\ [][ChatNext]_vars

(***************************************************************************)
(* Properties of the chat                                                  *)
(***************************************************************************)
Answered(c) == chats[c].pc \in {"save", "done"}

\* C12: the response of sendChatMessage depends on the message alone: two
\* calls with the same message have the same response whatever their
\* contexts, and so has every earlier exchange on record with that message.
C12_ResponseFromMessageOnly ==
    \A c \in ChatCalls :
        Answered(c) =>
            /\ \A d \in ChatCalls :
                  Answered(d) /\ chats[d].message = chats[c].message
                      => chats[d].response = chats[c].response
            /\ \A i \in DOMAIN chat_history :
                  chat_history[i].user_message = chats[c].message
                      => chat_history[i].ai_response = chats[c].response
            /\ chats[c].result # Null => chats[c].result = Return(chats[c].response)

\* two calls with the same message and different contexts, one of which names
\* a keyword of an earlier group, are answered after an exchange with that
\* message was recorded
C12_Witness ==
    /\ chats[1].pc = "done" /\ chats[2].pc = "done"
    /\ chats[1].message = Keywords.inhaler /\ chats[2].message = Keywords.inhaler
    /\ chats[1].context = <<>>
    /\ chats[2].context = <<Turn("user", Keywords.severe)>>
    /\ chats[1].result = Return(Responses.medication)
    /\ chats[2].result = Return(Responses.medication)
    /\ chat_history # <<>>

\* C13: when the saving of the exchange fails, by an error answered or an
\* exception raised, sendChatMessage still returns the responder's text.
C13_SaveFailureSwallowed ==
    \A c \in ChatCalls :
        chats[c].pc = "done" /\ chats[c].insert \in {"error", "raise"}
            => chats[c].result = Return(simulateAIResponse(chats[c].message))

\* a call whose insert raised has returned the responder's text, and the
\* failure was logged
C13_Witness ==
    \E c \in ChatCalls :
        /\ chats[c].pc = "done"
        /\ chats[c].insert = "raise"
        /\ chats[c].console = <<"Failed to save chat history:">>
        /\ chats[c].result = Return(simulateAIResponse(chats[c].message))
        /\ chat_history = <<>>

(***************************************************************************)
(* The owner-scoped CRUD layer, src/scripts/utils/api.js:239-850 and       *)
(* 1023-1069, with AuthManager.updateUserProfile,                          *)
(* src/scripts/auth/auth.js:372-398.  An operation runs from its call to   *)
(* its return in one step; every call it makes on the store succeeds,      *)
(* answers with an error or raises.  The optional narrowing filters and    *)
(* the ordering of the reads are left out.                                 *)
(***************************************************************************)
Unauthenticated == [kind |-> "error", message |-> "User not authenticated"]
\* the errors of the store, named after the call that met them
\* outcome "error": the store answered an error; "raise": the call raised;
\* "none": single() found no row (PGRST116)
Failure(call, outcome) == [kind |-> "error", message |-> outcome, from |-> call]

\* the shapes of the results
Ok(data) == Return([data |-> data, error |-> Null])
Fail(error) == Return([data |-> Null, error |-> error])
List(rows) == [kind |-> "list", items |-> rows]

\* a call on a table, with its owner filter (or the owner it writes), the id
\* it names (0 for none) and how the store answered; a call on the bucket
Req(call, table, user_id, id, outcome) ==
    [call |-> call, target |-> table, user_id |-> user_id, id |-> id, outcome |-> outcome]
StorageReq(call, path, outcome) ==
    [call |-> call, target |-> "health-reports", path |-> path, outcome |-> outcome]

OpRecord(name, user, arg, requests, result, console) ==
    [name |-> name, user |-> user, arg |-> arg, requests |-> requests,
     result |-> result, console |-> console]

\* the store takes a new row while it holds fewer than MaxDbRows
HasRoom ==
    Cardinality(db.health_reports) + Cardinality(db.appointments)
    + Cardinality(db.symptoms) + Cardinality(db.medications)
    + Cardinality(db.emergency_contacts) < MaxDbRows
Ids == 1..MaxDbRows

\* the identifier the store gives a new row: the first one free in the table
NextId(table) ==
    LET used == {r.id : r \in db[table]}
    IN  CHOOSE n \in 1..(Cardinality(used) + 1) :
            n \notin used /\ \A m \in 1..(n - 1) : m \in used

\* the name uploadHealthReport gives a file (line 286): the user's id and a
\* stamp not yet in use
FileName(user_id) ==
    LET taken == {f.n : f \in storage} \cup {r.file_path.n : r \in db.health_reports}
    IN  [owner |-> user_id,
         n |-> CHOOSE n \in 1..(Cardinality(taken) + 1) :
                   n \notin taken /\ \A m \in 1..(n - 1) : m \in taken]

\* the files no row names; the bucket is followed until it holds one
Orphans == storage \ {r.file_path : r \in db.health_reports}

\* the row an insert writes
RowOf(table, id, user_id) ==
    IF table = "appointments"
    THEN [id |-> id, user_id |-> user_id, status |-> "pending", date |-> "d1"]
    ELSE [id |-> id, user_id |-> user_id]

OwnRows(table, user_id) == {r \in db[table] : r.user_id = user_id}

\* an operation is called when the one before has returned (op = NoOp); it
\* leaves its store calls and its result in op
Complete(o, newDb, newStorage) ==
    /\ op = NoOp
    /\ op' = o
    /\ db' = newDb
    /\ storage' = newStorage
    /\ UNCHANGED <<now, cache, calls, scoreVars, respondVars, chatVars, session, authVars>>

\* the identity provider reports a sign-in or a sign-out, and the manager's
\* listener (auth.js:37-39) takes the session's user
AuthEvent(u) ==
    /\ op = NoOp
    /\ listening
    /\ session' = u
    /\ currentUser' = u
    /\ UNCHANGED <<now, cache, calls, scoreVars, respondVars, chatVars, db, storage, op,
                   authCallbacks, initialized, listening, initPc, handled, href>>

\* a trigger that writes a notification with its appointment leaving out
\* what the status was
create_appointment_notifications_anyStatus(TG_OP, old, new, notifications) ==
    LET note(rows, title) ==
            {[id |-> Cardinality({n \in rows : n.appointment_id = new.id}) + 1,
              user_id |-> new.user_id, title |-> title, appointment_id |-> new.id]}
        scheduled == IF TG_OP = "INSERT"
                     THEN notifications \cup note(notifications, "Appointment Scheduled")
                     ELSE notifications
    IN  IF TG_OP = "UPDATE" /\ new.status = "cancelled"
        THEN scheduled \cup note(scheduled, "Appointment Cancelled")
        ELSE scheduled

\* part_000:611-646: the trigger of the appointments table, run for a row
\* inserted (OLD is not read) or updated; the notifications table after it.
\* A notification is told from the others by its appointment and its number
\* among the notifications of that appointment.
create_appointment_notifications(TG_OP, old, new, notifications) ==
    LET note(rows, title) ==
            {[id |-> Cardinality({n \in rows : n.appointment_id = new.id}) + 1,
              user_id |-> new.user_id, title |-> title, appointment_id |-> new.id]}
        scheduled == IF TG_OP = "INSERT"
                     THEN notifications \cup note(notifications, "Appointment Scheduled")
                     ELSE notifications
    IN  IF TG_OP = "UPDATE" /\ old.status # "cancelled" /\ new.status = "cancelled"
        THEN scheduled \cup note(scheduled, "Appointment Cancelled")
        ELSE scheduled

\* the profile row the trigger on_auth_user_created writes for a new user
\* (part_000:369-386)
handle_new_user(user_id) == [user_id |-> user_id, full_name |-> "n1"]

\* InsertOwn issuing its insert before it looks at the user
InsertOwn_lateGuard(name, table, logText) ==
    IF session = Null
    THEN Complete(OpRecord(name, Null, 0, <<Req("insert", table, NullId, 0, "error")>>,
                           Fail(Unauthenticated), <<logText>>), db, storage)
    ELSE \E outcome \in StoreOutcomes :
            /\ outcome = "ok" => HasRoom
            /\ LET row == RowOf(table, NextId(table), session.id)
                   req == Req("insert", table, session.id, 0, outcome)
               IN  IF outcome = "ok"
                   THEN Complete(OpRecord(name, session, 0, <<req>>, Ok(row), <<>>),
                                 [db EXCEPT ![table] = @ \cup {row},
                                            !.notifications =
                                                IF table = "appointments"
                                                THEN create_appointment_notifications(
                                                         "INSERT", row, row, @)
                                                ELSE @],
                                 storage)
                   ELSE Complete(OpRecord(name, session, 0, <<req>>,
                                          Fail(Failure("insert", outcome)), <<logText>>),
                                 db, storage)

\* the common form of bookAppointment, logSymptom, logMedicationUsage and
\* addEmergencyContact: resolve the user, insert one row owned by it
InsertOwn(name, table, logText) ==
    IF session = Null
    THEN Complete(OpRecord(name, Null, 0, <<>>, Fail(Unauthenticated), <<logText>>), db, storage)
    ELSE \E outcome \in StoreOutcomes :
            /\ outcome = "ok" => HasRoom
            /\ LET row == RowOf(table, NextId(table), session.id)
                   req == Req("insert", table, session.id, 0, outcome)
               IN  IF outcome = "ok"
                   THEN Complete(OpRecord(name, session, 0, <<req>>, Ok(row), <<>>),
                                 [db EXCEPT ![table] = @ \cup {row},
                                            !.notifications =
                                                IF table = "appointments"
                                                THEN create_appointment_notifications(
                                                         "INSERT", row, row, @)
                                                ELSE @],
                                 storage)
                   ELSE Complete(OpRecord(name, session, 0, <<req>>,
                                          Fail(Failure("insert", outcome)), <<logText>>),
                                 db, storage)

\* SelectOwn returning its failures as {data: null, error}
SelectOwn_asResult(name, table, logText) ==
    IF session = Null
    THEN Complete(OpRecord(name, Null, 0, <<>>, Throw(Unauthenticated), <<logText>>), db, storage)
    ELSE \E outcome \in StoreOutcomes :
             LET req == Req("select", table, session.id, 0, outcome)
             IN  IF outcome = "ok"
                 THEN Complete(OpRecord(name, session, 0, <<req>>,
                                        Return(List(OwnRows(table, session.id))), <<>>),
                               db, storage)
                 ELSE Complete(OpRecord(name, session, 0, <<req>>,
                                        Fail(Failure("select", outcome)), <<logText>>),
                               db, storage)

\* the common form of getHealthReports, getAppointments, getSymptomHistory,
\* getMedicationHistory and getEmergencyContacts: resolve the user, select its
\* rows; every failure is logged and thrown again
SelectOwn(name, table, logText) ==
    IF session = Null
    THEN Complete(OpRecord(name, Null, 0, <<>>, Throw(Unauthenticated), <<logText>>), db, storage)
    ELSE \E outcome \in StoreOutcomes :
             LET req == Req("select", table, session.id, 0, outcome)
             IN  IF outcome = "ok"
                 THEN Complete(OpRecord(name, session, 0, <<req>>,
                                        Return(List(OwnRows(table, session.id))), <<>>),
                               db, storage)
                 ELSE Complete(OpRecord(name, session, 0, <<req>>,
                                        Throw(Failure("select", outcome)), <<logText>>),
                               db, storage)

\* the common form of cancelAppointment and rescheduleAppointment: update the
\* row with the id among the user's rows and read it back with single()
UpdateOwn(name, appointmentId, field, value, logText) ==
    IF session = Null
    THEN Complete(OpRecord(name, Null, appointmentId, <<>>, Fail(Unauthenticated), <<logText>>),
                  db, storage)
    ELSE \E outcome \in StoreOutcomes :
             LET req == Req("update", "appointments", session.id, appointmentId, outcome)
                 hit == {r \in db.appointments :
                            r.id = appointmentId /\ r.user_id = session.id}
                 updated == {[r EXCEPT ![field] = value] : r \in hit}
             IN  IF outcome = "ok" /\ hit # {}
                 THEN Complete(OpRecord(name, session, appointmentId, <<req>>,
                                        Ok(CHOOSE r \in updated : TRUE), <<>>),
                               [db EXCEPT !.appointments = (@ \ hit) \cup updated,
                                          !.notifications =
                                              create_appointment_notifications(
                                                  "UPDATE", CHOOSE r \in hit : TRUE,
                                                  CHOOSE r \in updated : TRUE, @)],
                               storage)
                 ELSE Complete(OpRecord(name, session, appointmentId, <<req>>,
                                        Fail(IF outcome = "ok" THEN Failure("update", "none")
                                             ELSE Failure("update", outcome)),
                                        <<logText>>),
                               db, storage)

\* api.js:239-264: without a user the empty list; a failure gives the empty list
getChatHistory ==
    IF session = Null
    THEN Complete(OpRecord("getChatHistory", Null, 0, <<>>, Return(List({})), <<>>), db, storage)
    ELSE \E outcome \in StoreOutcomes :
             LET req == Req("select", "chat_history", session.id, 0, outcome)
                 rows == {chat_history[i] : i \in {j \in DOMAIN chat_history :
                                                   chat_history[j].user_id = session.id}}
             IN  IF outcome = "ok"
                 THEN Complete(OpRecord("getChatHistory", session, 0, <<req>>,
                                        Return(List(rows)), <<>>), db, storage)
                 ELSE Complete(OpRecord("getChatHistory", session, 0, <<req>>,
                                        Return(List({})), <<"Failed to fetch chat history:">>),
                               db, storage)

\* api.js:276-335
uploadHealthReport ==
    IF session = Null
    THEN Complete(OpRecord("uploadHealthReport", Null, 0, <<>>, Fail(Unauthenticated),
                           <<"Health report upload failed:">>), db, storage)
    ELSE LET fileName == FileName(session.id)
             row == [id |-> NextId("health_reports"), user_id |-> session.id,
                     file_path |-> fileName]
             up(o) == StorageReq("upload", fileName, o)
             url == StorageReq("getPublicUrl", fileName, "ok")
             ins(o) == Req("insert", "health_reports", session.id, 0, o)
             rem(o) == StorageReq("remove", fileName, o)
             failed(reqs, error) ==
                 OpRecord("uploadHealthReport", session, 0, reqs, Fail(error),
                          <<"Health report upload failed:">>)
         IN  \E upload \in StoreOutcomes :
                 /\ upload = "ok" => Orphans = {}
                 /\ IF upload # "ok"
                    \* lines 293-295: uploadError, or the upload raised
                    THEN Complete(failed(<<up(upload)>>, Failure("upload", upload)), db, storage)
                    ELSE \E insert \in StoreOutcomes :
                        /\ insert = "ok" => HasRoom
                        /\ IF insert = "ok"
                           THEN Complete(OpRecord("uploadHealthReport", session, 0,
                                                  <<up(upload), url, ins(insert)>>, Ok(row), <<>>),
                                         [db EXCEPT !.health_reports = @ \cup {row}],
                                         storage \cup {fileName})
                           ELSE IF insert = "raise"
                           \* the insert raised: control is in the catch, past the clean-up
                           THEN Complete(failed(<<up(upload), url, ins(insert)>>, Failure("insert", "raise")),
                                         db, storage \cup {fileName})
                           \* lines 320-326: dbError; the file is removed, then dbError
                           \* is thrown, unless the removal itself raised
                           ELSE \E remove \in StoreOutcomes :
                               Complete(failed(<<up(upload), url, ins(insert), rem(remove)>>,
                                               IF remove = "raise" THEN Failure("remove", "raise")
                                               ELSE Failure("insert", "error")),
                                        db,
                                        IF remove = "ok" THEN storage
                                        ELSE storage \cup {fileName})

\* deleteHealthReport deleting the row and leaving the file in the bucket
deleteHealthReport_rowOnly(reportId) ==
    IF session = Null
    THEN Complete(OpRecord("deleteHealthReport", Null, reportId, <<>>,
                           Return([error |-> Unauthenticated]),
                           <<"Health report delete failed:">>), db, storage)
    ELSE LET hit == {r \in db.health_reports : r.id = reportId /\ r.user_id = session.id}
             sel(o) == Req("select", "health_reports", session.id, reportId, o)
             del(o) == Req("delete", "health_reports", session.id, reportId, o)
             failed(reqs, error) ==
                 OpRecord("deleteHealthReport", session, reportId, reqs,
                          Return([error |-> error]), <<"Health report delete failed:">>)
         IN  \E select \in StoreOutcomes :
                 IF select # "ok" \/ hit = {}
                 THEN Complete(failed(<<sel(select)>>,
                                      IF select = "ok" THEN Failure("select", "none")
                                      ELSE Failure("select", select)),
                               db, storage)
                 ELSE \E delete \in StoreOutcomes :
                          IF delete # "ok"
                          THEN Complete(failed(<<sel(select), del(delete)>>,
                                               Failure("delete", delete)),
                                        db, storage)
                          ELSE Complete(OpRecord("deleteHealthReport", session, reportId,
                                                 <<sel(select), del(delete)>>,
                                                 Return([error |-> Null]), <<>>),
                                        [db EXCEPT !.health_reports = @ \ hit], storage)

\* api.js:384-432
deleteHealthReport(reportId) ==
    IF session = Null
    THEN Complete(OpRecord("deleteHealthReport", Null, reportId, <<>>,
                           Return([error |-> Unauthenticated]),
                           <<"Health report delete failed:">>), db, storage)
    ELSE LET hit == {r \in db.health_reports : r.id = reportId /\ r.user_id = session.id}
             report == CHOOSE r \in hit : TRUE
             sel(o) == Req("select", "health_reports", session.id, reportId, o)
             rem(o) == StorageReq("remove", report.file_path, o)
             del(o) == Req("delete", "health_reports", session.id, reportId, o)
             failed(reqs, error, log) ==
                 OpRecord("deleteHealthReport", session, reportId, reqs,
                          Return([error |-> error]), log \o <<"Health report delete failed:">>)
         IN  \E select \in StoreOutcomes :
                 IF select # "ok" \/ hit = {}
                 \* lines 400-402: fetchError, single() finding no row included
                 THEN Complete(failed(<<sel(select)>>,
                                      IF select = "ok" THEN Failure("select", "none")
                                      ELSE Failure("select", select), <<>>),
                               db, storage)
                 ELSE \E remove \in StoreOutcomes :
                     /\ remove = "error" => Orphans = {}
                     /\ IF remove = "raise"
                        \* the removal raised: control is in the catch, past the row's delete
                        THEN Complete(failed(<<sel(select), rem(remove)>>, Failure("remove", "raise"), <<>>),
                                      db, storage)
                        \* lines 409-412: storageError is logged and passed over
                        ELSE LET kept == IF remove = "ok" THEN storage \ {report.file_path}
                                         ELSE storage
                                 log == IF remove = "ok" THEN <<>>
                                        ELSE <<"Storage delete failed:">>
                             IN  \E delete \in StoreOutcomes :
                                     IF delete # "ok"
                                     THEN Complete(failed(<<sel(select), rem(remove), del(delete)>>,
                                                          Failure("delete", delete), log),
                                                   db, kept)
                                     ELSE Complete(OpRecord("deleteHealthReport", session, reportId,
                                                            <<sel(select), rem(remove), del(delete)>>,
                                                            Return([error |-> Null]), log),
                                                   [db EXCEPT !.health_reports = @ \ hit], kept)


\* cancelAppointment with the update filtered by the id alone
cancelAppointment_byIdOnly(appointmentId) ==
    IF session = Null
    THEN Complete(OpRecord("cancelAppointment", Null, appointmentId, <<>>,
                           Fail(Unauthenticated), <<"Appointment cancellation failed:">>),
                  db, storage)
    ELSE \E outcome \in StoreOutcomes :
             LET req == Req("update", "appointments", session.id, appointmentId, outcome)
                 hit == {r \in db.appointments : r.id = appointmentId}
                 updated == {[r EXCEPT !.status = "cancelled"] : r \in hit}
             IN  IF outcome = "ok" /\ hit # {}
                 THEN Complete(OpRecord("cancelAppointment", session, appointmentId, <<req>>,
                                        Ok(CHOOSE r \in updated : TRUE), <<>>),
                               [db EXCEPT !.appointments = (@ \ hit) \cup updated,
                                          !.notifications =
                                              create_appointment_notifications(
                                                  "UPDATE", CHOOSE r \in hit : TRUE,
                                                  CHOOSE r \in updated : TRUE, @)],
                               storage)
                 ELSE Complete(OpRecord("cancelAppointment", session, appointmentId, <<req>>,
                                        Fail(Failure("update", "error")),
                                        <<"Appointment cancellation failed:">>),
                               db, storage)

cancelAppointment(appointmentId) ==
    UpdateOwn("cancelAppointment", appointmentId, "status", "cancelled",
              "Appointment cancellation failed:")
rescheduleAppointment(appointmentId, newDateTime) ==
    UpdateOwn("rescheduleAppointment", appointmentId, "date", newDateTime,
              "Appointment rescheduling failed:")

\* the operations of the form InsertOwn and of the form SelectOwn: the name,
\* the table and the words logged on failure
Inserts ==
    {<<"bookAppointment", "appointments", "Appointment booking failed:">>,
     <<"logSymptom", "symptoms", "Symptom logging failed:">>,
     <<"logMedicationUsage", "medications", "Medication logging failed:">>,
     <<"addEmergencyContact", "emergency_contacts", "Emergency contact addition failed:">>}
Reads ==
    {<<"getHealthReports", "health_reports", "Failed to fetch health reports:">>,
     <<"getAppointments", "appointments", "Failed to fetch appointments:">>,
     <<"getSymptomHistory", "symptoms", "Failed to fetch symptom history:">>,
     <<"getMedicationHistory", "medications", "Failed to fetch medication history:">>,
     <<"getEmergencyContacts", "emergency_contacts", "Failed to fetch emergency contacts:">>}

\* the seven selects of exportUserData, in the order of lines 1041-1047
ExportTables == <<"user_profiles", "health_reports", "appointments", "symptoms",
                  "medications", "emergency_contacts", "chat_history">>

\* api.js:1023-1069.  The seven selects are issued together; one that raises
\* rejects the whole, one that answers an error leaves its part empty.  At
\* most one of the seven fails in a step: the profile, the first of the lists
\* or the last.
exportUserData ==
    IF session = Null
    THEN Complete(OpRecord("exportUserData", Null, 0, <<>>, Fail(Unauthenticated),
                           <<"Data export failed:">>), db, storage)
    ELSE \E failing \in {0, 1, 2, Len(ExportTables)}, outcome \in {"error", "raise"} :
             LET answer(i) == IF i = failing THEN outcome ELSE "ok"
                 reqs == [i \in DOMAIN ExportTables |->
                             Req("select", ExportTables[i], session.id, 0, answer(i))]
                 part(i) == IF answer(i) = "ok"
                            THEN List(OwnRows(ExportTables[i], session.id))
                            ELSE List({})
                 profiles == OwnRows("user_profiles", session.id)
                 chat == {chat_history[i] : i \in {j \in DOMAIN chat_history :
                                                   chat_history[j].user_id = session.id}}
                 backup == [userId |-> session.id,
                            profile |-> IF answer(1) = "ok" /\ profiles # {}
                                        THEN CHOOSE r \in profiles : TRUE ELSE Null,
                            healthReports |-> part(2),
                            appointments |-> part(3),
                            symptoms |-> part(4),
                            medications |-> part(5),
                            emergencyContacts |-> part(6),
                            chatHistory |-> IF answer(7) = "ok" THEN List(chat) ELSE List({})]
             IN  IF failing # 0 /\ outcome = "raise"
                 THEN Complete(OpRecord("exportUserData", session, 0, reqs,
                                        Fail(Failure("select", "raise")), <<"Data export failed:">>),
                               db, storage)
                 ELSE Complete(OpRecord("exportUserData", session, 0, reqs, Ok(backup), <<>>),
                               db, storage)

\* auth.js:372-398.  The guard reads the manager's currentUser and throws
\* outside the try; the update names no row id and reads back a list.
updateUserProfile(updates) ==
    IF currentUser = Null
    THEN Complete(OpRecord("updateUserProfile", Null, 0, <<>>, Throw(Unauthenticated), <<>>),
                  db, storage)
    ELSE \E outcome \in StoreOutcomes :
             LET req == Req("update", "user_profiles", currentUser.id, 0, outcome)
                 hit == OwnRows("user_profiles", currentUser.id)
                 updated == {[r EXCEPT !.full_name = updates] : r \in hit}
             IN  IF outcome = "ok"
                 THEN Complete(OpRecord("updateUserProfile", currentUser, 0, <<req>>,
                                        Ok(List(updated)), <<>>),
                               [db EXCEPT !.user_profiles = (@ \ hit) \cup updated], storage)
                 ELSE Complete(OpRecord("updateUserProfile", currentUser, 0, <<req>>,
                                        Fail(Failure("update", outcome)),
                                        <<"Update user profile error:">>),
                               db, storage)

\* the caller has the result of the operation
CrudReturn ==
    /\ op # NoOp
    /\ op' = NoOp
    /\ UNCHANGED <<now, cache, calls, scoreVars, respondVars, chatVars, session, db, storage, authVars>>

\* the users have signed up and have no data yet; one exchange is in the
\* chat history; the AuthManager is initialized, with no session
CrudInit ==
    /\ chat_history = <<[user_id |-> NullId, user_message |-> Keywords.inhaler,
                         ai_response |-> Responses.medication]>>
    /\ chats = [c \in ChatCalls |-> IdleChat]
    /\ session = Null
    /\ db = [EmptyDb EXCEPT !.user_profiles = {handle_new_user(id) : id \in Users}]
    /\ storage = {}
    /\ op = NoOp
    /\ currentUser = Null
    /\ authCallbacks = <<>>
    /\ initialized = TRUE
    /\ listening = TRUE
    /\ initPc = "done"
    /\ handled = NoHandler
    /\ href = HomePage
    /\ IdleExcept({"chat", "crud", "auth"})

CrudNext ==
    \/ \E u \in {Null} \cup {User(id) : id \in Users} : AuthEvent(u)
    \/ \E i \in Inserts : InsertOwn(i[1], i[2], i[3])
    \/ \E r \in Reads : SelectOwn(r[1], r[2], r[3])
    \/ getChatHistory
    \/ uploadHealthReport
    \/ \E reportId \in Ids : deleteHealthReport(reportId)
    \/ \E appointmentId \in Ids : cancelAppointment(appointmentId)
    \/ \E appointmentId \in Ids, newDateTime \in {"d2"} :
           rescheduleAppointment(appointmentId, newDateTime)
    \/ exportUserData
    \/ \E updates \in {"n2"} : updateUserProfile(updates)
    \/ CrudReturn

CrudSpec == CrudInit /\ [][CrudNext]_vars

(***************************************************************************)
(* Properties of the CRUD layer                                            *)
(***************************************************************************)
InsertOps == {i[1] : i \in Inserts}
UpdateOps == {"cancelAppointment", "rescheduleAppointment"}
ReadOps == {r[1] : r \in Reads}
\* the operations whose failures come back as a {data: null, error} result
ResultOps == InsertOps \cup UpdateOps \cup {"uploadHealthReport", "exportUserData"}

Called(o) == o.name # "none"
NoUser(o) == o.user = Null

\* the result is the unauthenticated error, returned or thrown
UnauthenticatedFailure(r) ==
    \/ r.kind = "throw" /\ r.value = Unauthenticated
    \/ r.kind = "return" /\ "error" \in DOMAIN r.value /\ r.value.error = Unauthenticated

\* C14 as stated: without a resolved user every operation fails with the
\* unauthenticated error and issues no call on the store.
C14_Original ==
    Called(op) /\ NoUser(op) => op.requests = <<>> /\ UnauthenticatedFailure(op.result)

\* C14: without a resolved user no operation issues a call on a table or on
\* the bucket; getChatHistory returns the empty list, the five reads and
\* updateUserProfile throw the unauthenticated error, deleteHealthReport
\* returns it as {error} and the others as {data: null, error}.
C14_NoUserNoStoreCall ==
    Called(op) /\ NoUser(op) =>
        /\ op.requests = <<>>
        /\ op.name = "getChatHistory" => op.result = Return(List({}))
        /\ op.name \in ReadOps \cup {"updateUserProfile"} => op.result = Throw(Unauthenticated)
        /\ op.name = "deleteHealthReport" => op.result = Return([error |-> Unauthenticated])
        /\ op.name \in ResultOps => op.result = Fail(Unauthenticated)

\* getChatHistory was called without a user while a user's row was in the
\* store, and returned the empty list
C14_Witness ==
    /\ op.name = "getChatHistory"
    /\ NoUser(op)
    /\ op.result = Return(List({}))
    /\ db.appointments # {}

\* the store answered one of the operation's calls with an error
StoreFailed(o) == \E i \in DOMAIN o.requests : o.requests[i].outcome = "error"
AnsweredWith(o, call, outcome) ==
    \E i \in DOMAIN o.requests :
        o.requests[i].call = call /\ o.requests[i].outcome = outcome

\* a {data: null, error} result
FailShape(r) ==
    /\ r.kind = "return"
    /\ DOMAIN r.value = {"data", "error"}
    /\ r.value.data = Null
    /\ r.value.error # Null

\* C15 as stated: an error answered by the store comes back as a
\* {data: null, error} result, from the reads as from the mutating operations.
C15_Original ==
    Called(op) /\ StoreFailed(op) => FailShape(op.result)

\* C15: when the store answers a call with an error, the inserts, the
\* updates and updateUserProfile return {data: null, error} with that error;
\* uploadHealthReport returns {data: null, error}; deleteHealthReport returns
\* {error}, with the error of its select or its delete, and passes over an
\* error of the file's removal; the five reads throw the error;
\* getChatHistory returns the empty list; exportUserData returns
\* {data, error: null} with the failed part empty.
C15_StoreErrorByOperation ==
    Called(op) /\ StoreFailed(op) =>
        /\ op.name \in InsertOps => op.result = Fail(Failure("insert", "error"))
        /\ op.name \in UpdateOps \cup {"updateUserProfile"}
              => op.result = Fail(Failure("update", "error"))
        /\ op.name = "uploadHealthReport" => FailShape(op.result)
        /\ op.name = "deleteHealthReport" =>
              /\ op.result.kind = "return"
              /\ DOMAIN op.result.value = {"error"}
              /\ AnsweredWith(op, "select", "error")
                    => op.result.value.error = Failure("select", "error")
              /\ AnsweredWith(op, "delete", "error")
                    => op.result.value.error = Failure("delete", "error")
              /\ AnsweredWith(op, "remove", "error") /\ AnsweredWith(op, "delete", "ok")
                    => op.result.value.error = Null
        /\ op.name \in ReadOps => op.result = Throw(Failure("select", "error"))
        /\ op.name = "getChatHistory" => op.result = Return(List({}))
        /\ op.name = "exportUserData" =>
              /\ op.result.kind = "return"
              /\ op.result.value.error = Null
              /\ op.result.value.data # Null
              /\ op.requests[2].outcome = "error"
                    => op.result.value.data.healthReports = List({})

\* a read whose select was answered with an error has thrown it, while the
\* caller had a row in the table
C15_Witness ==
    /\ op.name = "getAppointments"
    /\ op.user # Null
    /\ AnsweredWith(op, "select", "error")
    /\ op.result = Throw(Failure("select", "error"))
    /\ \E r \in db.appointments : r.user_id = op.user.id

\* the rows an operation handed to its caller
ReturnedRows(o) ==
    IF o.result.kind # "return" THEN {}
    ELSE IF o.name \in ReadOps \cup {"getChatHistory"} THEN o.result.value.items
    ELSE IF o.name = "deleteHealthReport" THEN {}
    ELSE IF o.result.value.error # Null THEN {}
    ELSE IF o.name = "updateUserProfile" THEN o.result.value.data.items
    ELSE IF o.name = "exportUserData"
    THEN LET d == o.result.value.data
         IN  d.healthReports.items \cup d.appointments.items \cup d.symptoms.items
             \cup d.medications.items \cup d.emergencyContacts.items
             \cup d.chatHistory.items
             \cup (IF d.profile = Null THEN {} ELSE {d.profile})
    ELSE {o.result.value.data}

TableCalls(o) ==
    {o.requests[i] : i \in {j \in DOMAIN o.requests :
                               o.requests[j].target \in OwnerTables \cup {"chat_history"}}}

\* the step is a call by user u that keeps to the rows of u
OwnerScoped(u) ==
    /\ \A q \in TableCalls(op') : q.user_id = u
    /\ \A r \in ReturnedRows(op') : r.user_id = u
    /\ \A t \in OwnerTables :
          /\ \A r \in db[t] : r.user_id # u => r \in db'[t]
          /\ \A r \in db'[t] \ db[t] : r.user_id = u

\* C16: every call an operation issues on an owner-scoped table carries the
\* id of the authenticated user, as its filter or as the owner it writes; the
\* rows it returns are that user's; no row of another user is changed or
\* deleted, and every row that appears is that user's.
C16_OwnerScoped ==
    [][ op = NoOp /\ op' # NoOp =>
            /\ op'.user = session
            /\ IF op'.user = Null
               THEN op'.requests = <<>> /\ ReturnedRows(op') = {} /\ db' = db
               ELSE OwnerScoped(op'.user.id) ]_vars

\* user A asked to cancel the pending appointment of user B by its id: no
\* row was found and the appointment is as it was
C16_Witness ==
    /\ op.name = "cancelAppointment"
    /\ op.user = User("A")
    /\ op.result = Fail(Failure("update", "none"))
    /\ \E r \in db.appointments :
          r.id = op.arg /\ r.user_id = "B" /\ r.status = "pending"

\* C17 as stated: in deleteHealthReport, once the caller's row was found, a
\* failure of the file's removal, answered or raised, is followed by the
\* delete of the row, and the result is {error: null} if that delete succeeds.
C17_Original ==
    /\ op.name = "deleteHealthReport"
    /\ Len(op.requests) >= 2
    /\ op.requests[2].outcome \in {"error", "raise"}
    => /\ Len(op.requests) = 3
       /\ op.requests[3].call = "delete"
       /\ op.requests[3].outcome = "ok" => op.result = Return([error |-> Null])

\* C18 as stated: in uploadHealthReport, when the upload succeeded and the
\* insert failed, the removal of the uploaded file was attempted, the result
\* is {data: null, error} with the error of the insert, and if the removal
\* succeeded the file is not in the bucket.
C18_Original ==
    /\ op.name = "uploadHealthReport"
    /\ Len(op.requests) >= 3
    /\ op.requests[1].outcome = "ok"
    /\ op.requests[3].outcome \in {"error", "raise"}
    => /\ Len(op.requests) = 4
       /\ op.requests[4].call = "remove"
       /\ op.requests[4].path = op.requests[1].path
       /\ op.result = Fail(Failure("insert", op.requests[3].outcome))
       /\ op.requests[4].outcome = "ok" => op.requests[1].path \notin storage

(***************************************************************************)
(* The AuthManager and its observers, src/scripts/auth/auth.js:9-100.      *)
(* A handler runs to its end in one step, the callbacks it invokes         *)
(* included.                                                               *)
(***************************************************************************)
\* the observers and what each does when invoked: nothing more, throw, remove
\* itself, or remove the observer p1
Observers == {"p1", "p2", "once", "bad", "evict"}
Behaviour ==
    [p1 |-> "plain", p2 |-> "plain", once |-> "removeSelf", bad |-> "throws",
     evict |-> "removeP1"]

\* the events the identity provider delivers, each with its session's user
AuthEvents ==
    {<<"SIGNED_IN", User("A")>>, <<"SIGNED_IN", User("B")>>, <<"SIGNED_OUT", Null>>}

\* lines 80-85: indexOf and splice
Without(callbacks, callback) ==
    IF \E i \in DOMAIN callbacks : callbacks[i] = callback
    THEN LET index == CHOOSE i \in DOMAIN callbacks :
                          callbacks[i] = callback
                          /\ \A j \in 1..(i - 1) : callbacks[j] # callback
         IN  SubSeq(callbacks, 1, index - 1) \o SubSeq(callbacks, index + 1, Len(callbacks))
    ELSE callbacks

\* one call of a callback with (user, event) while the manager's currentUser
\* is current: the call as the observer sees it, the list it leaves, and
\* whether it threw
Invoke(callback, callbacks, current, user, event) ==
    [calls |-> <<[observer |-> callback, user |-> user, event |-> event, seen |-> current]>>,
     callbacks |-> CASE Behaviour[callback] = "removeSelf" -> Without(callbacks, callback)
                     [] Behaviour[callback] = "removeP1" -> Without(callbacks, "p1")
                     [] OTHER -> callbacks,
     threw |-> Behaviour[callback] = "throws"]

\* forEach without the try and catch around the callback: the first throw
\* ends the visit
RECURSIVE forEach_uncaught(_, _, _, _, _, _)
forEach_uncaught(callbacks, k, len, user, event, made) ==
    IF k > len
    THEN [callbacks |-> callbacks, calls |-> made]
    ELSE IF k > Len(callbacks)
    THEN forEach_uncaught(callbacks, k + 1, len, user, event, made)
    ELSE LET r == Invoke(callbacks[k], callbacks, user, user, event)
         IN  IF r.threw
             THEN [callbacks |-> r.callbacks, calls |-> made \o r.calls]
             ELSE forEach_uncaught(r.callbacks, k + 1, len, user, event, made \o r.calls)

\* lines 41-47: Array.prototype.forEach over authCallbacks.  The indices run
\* from the first to the length the list had at the start; an index the list
\* no longer has is passed over; what a callback throws is caught and logged.
RECURSIVE forEach(_, _, _, _, _, _)
forEach(callbacks, k, len, user, event, made) ==
    IF k > len
    THEN [callbacks |-> callbacks, calls |-> made]
    ELSE IF k > Len(callbacks)
    THEN forEach(callbacks, k + 1, len, user, event, made)
    ELSE LET r == Invoke(callbacks[k], callbacks, user, user, event)
         IN  forEach(r.callbacks, k + 1, len, user, event, made \o r.calls)

Handler(kind, event, user, observer, made, threw) ==
    [kind |-> kind, event |-> event, user |-> user, observer |-> observer,
     before |-> authCallbacks, wasInitialized |-> initialized, calls |-> made,
     threw |-> threw, requests |-> <<>>, result |-> Null, console |-> <<>>]

AuthFrame ==
    UNCHANGED <<now, cache, calls, scoreVars, respondVars, chatVars, crudVars, href>>

\* lines 20-61: getSession has answered.  A raised failure leaves the manager
\* uninitialized and without listener; an answered error leaves currentUser.
init ==
    /\ initPc = "getSession"
    /\ initPc' = "done"
    /\ \E outcome \in StoreOutcomes, sessionUser \in {Null} \cup {User(id) : id \in Users} :
          /\ currentUser' = IF outcome = "ok" THEN sessionUser ELSE currentUser
          /\ listening' = (outcome # "raise")
          /\ initialized' = (outcome # "raise")
          /\ handled' = Handler("init", "", IF outcome = "ok" THEN sessionUser ELSE Null,
                                "", <<>>, FALSE)
    /\ UNCHANGED authCallbacks
    /\ AuthFrame

\* lines 37-54: the listener registered with the identity provider
AuthStateChanged(event, sessionUser) ==
    /\ listening
    /\ currentUser' = sessionUser
    /\ LET r == forEach(authCallbacks, 1, Len(authCallbacks), sessionUser, event, <<>>)
       IN  /\ authCallbacks' = r.callbacks
           /\ handled' = Handler("event", event, sessionUser, "", r.calls, FALSE)
    /\ UNCHANGED <<initialized, listening, initPc>>
    /\ AuthFrame

\* onAuthStateChange calling the callback whether initialized or not
onAuthStateChange_always(callback) ==
    /\ Len(authCallbacks) < MaxCallbacks
    /\ LET r == Invoke(callback, Append(authCallbacks, callback), currentUser, currentUser,
                       "INITIAL_SESSION")
       IN  /\ authCallbacks' = r.callbacks
           /\ handled' = Handler("register", "INITIAL_SESSION", currentUser, callback,
                                 r.calls, r.threw)
    /\ UNCHANGED <<currentUser, initialized, listening, initPc>>
    /\ AuthFrame

\* lines 67-74: push, then the immediate call if initialized (nothing is
\* caught here: what the callback throws reaches the caller)
onAuthStateChange(callback) ==
    /\ Len(authCallbacks) < MaxCallbacks
    /\ IF initialized
       THEN LET r == Invoke(callback, Append(authCallbacks, callback), currentUser,
                            currentUser, "INITIAL_SESSION")
            IN  /\ authCallbacks' = r.callbacks
                /\ handled' = Handler("register", "INITIAL_SESSION", currentUser, callback,
                                      r.calls, r.threw)
       ELSE /\ authCallbacks' = Append(authCallbacks, callback)
            /\ handled' = Handler("register", "INITIAL_SESSION", currentUser, callback,
                                  <<>>, FALSE)
    /\ UNCHANGED <<currentUser, initialized, listening, initPc>>
    /\ AuthFrame

\* lines 80-85
removeAuthStateCallback(callback) ==
    /\ authCallbacks' = Without(authCallbacks, callback)
    /\ handled' = Handler("remove", "", Null, callback, <<>>, FALSE)
    /\ UNCHANGED <<currentUser, initialized, listening, initPc>>
    /\ AuthFrame

\* lines 91-101: !!this.currentUser
isAuthenticated == currentUser # Null

\* the methods that pass one call on to the identity provider, each with the
\* provider's call: lines 145-163, 169-187, 193-211, 217-232, 239-257,
\* 264-282, 289-307, 467-483
AuthMethods ==
    {<<"signIn", "signInWithPassword">>, <<"signInWithGoogle", "signInWithOAuth">>,
     <<"signInWithGitHub", "signInWithOAuth">>, <<"signOut", "signOut">>,
     <<"resetPassword", "resetPasswordForEmail">>, <<"updatePassword", "updateUser">>,
     <<"updateProfile", "updateUser">>, <<"refreshSession", "refreshSession">>}

\* what a method returns: {data, error}, and {error} alone from signOut
AuthResult(name, data, error) ==
    IF name = "signOut" THEN Return([error |-> error])
    ELSE Return([data |-> data, error |-> error])

\* a method taking the user the provider answers with for the current user
AuthMethod_assigns(name, call) ==
    /\ \E outcome \in StoreOutcomes, u \in Users :
          /\ handled' = [Handler(name, "", User(u), "", <<>>, FALSE) EXCEPT
                            !.requests = <<Req(call, "auth", u, 0, outcome)>>,
                            !.result = IF outcome = "ok"
                                       THEN AuthResult(name, User(u), Null)
                                       ELSE AuthResult(name, Null, Failure(call, outcome))]
          /\ currentUser' = IF outcome = "ok" THEN User(u) ELSE currentUser
    /\ UNCHANGED <<authCallbacks, initialized, listening, initPc>>
    /\ AuthFrame

\* one of the methods of AuthMethods: the provider's call succeeds for a
\* user, answers an error or raises; the error is thrown into the catch,
\* which returns it
AuthMethod(name, call) ==
    /\ \E outcome \in StoreOutcomes, u \in Users :
          handled' = [Handler(name, "", User(u), "", <<>>, FALSE) EXCEPT
                         !.requests = <<Req(call, "auth", u, 0, outcome)>>,
                         !.result = IF outcome = "ok"
                                    THEN AuthResult(name, User(u), Null)
                                    ELSE AuthResult(name, Null, Failure(call, outcome))]
    /\ UNCHANGED <<currentUser, authCallbacks, initialized, listening, initPc>>
    /\ AuthFrame

\* the answers of the insert of a profile row: done, refused as a duplicate
\* key (code 23505), refused otherwise, or raised
InsertOutcomes == {"ok", "23505", "error", "raise"}

\* the trigger on_auth_user_created of part_000:369-386, for a user the
\* provider has accepted
on_auth_user_created(user_id) ==
    IF OwnRows("user_profiles", user_id) = {}
    THEN db.user_profiles \cup {handle_new_user(user_id)}
    ELSE db.user_profiles

\* createUserProfile letting the failure of the insert out (no catch)
createUserProfile_rethrow(rows, user, outcome) ==
    CASE outcome = "ok" ->
            [rows |-> rows \cup {handle_new_user(user.id)},
             log |-> <<"User profile created">>, threw |-> FALSE]
      [] outcome = "23505" ->
            [rows |-> rows, log |-> <<"User profile created">>, threw |-> FALSE]
      [] OTHER ->
            [rows |-> rows, log |-> <<>>, threw |-> TRUE]

\* lines 313-337: the insert of the profile row.  A duplicate key is passed
\* over; any other failure is thrown into the catch, which logs it and throws
\* nothing.
createUserProfile(rows, user, outcome) ==
    CASE outcome = "ok" ->
            [rows |-> rows \cup {handle_new_user(user.id)},
             log |-> <<"User profile created">>, threw |-> FALSE]
      [] outcome = "23505" ->
            [rows |-> rows, log |-> <<"User profile created">>, threw |-> FALSE]
      [] OTHER ->
            [rows |-> rows, log |-> <<"Create profile error:">>, threw |-> FALSE]

\* lines 110-137.  The provider accepts the sign-up of a user, answers an
\* error or raises.  On acceptance the trigger on_auth_user_created has made
\* the profile row, so that the insert of createUserProfile is done only if
\* no row of the user is there, which the unique key on user_id decides.
signUp ==
    \E provider \in StoreOutcomes, u \in Users, outcome \in InsertOutcomes :
        LET request == Req("signUp", "auth", u, 0, provider)
            h == Handler("signUp", "", User(u), "", <<>>, FALSE)
            created == on_auth_user_created(u)
        IN  /\ outcome = "ok" => {r \in created : r.user_id = u} = {}
            /\ provider # "ok" => outcome = "error"
            /\ IF provider = "ok"
               THEN LET profile == createUserProfile(created, User(u), outcome)
                    IN  /\ db' = [db EXCEPT !.user_profiles = profile.rows]
                        /\ handled' = [h EXCEPT
                               !.requests = <<request,
                                              Req("insert", "user_profiles", u, 0, outcome)>>,
                               !.console = <<"User signed up:">> \o profile.log
                                           \o IF profile.threw THEN <<"Sign up error:">>
                                              ELSE <<>>,
                               !.result = IF profile.threw
                                          THEN AuthResult("signUp", Null,
                                                          Failure("insert", outcome))
                                          ELSE AuthResult("signUp", User(u), Null)]
               ELSE /\ db' = db
                    /\ handled' = [h EXCEPT
                           !.requests = <<request>>,
                           !.console = <<"Sign up error:">>,
                           !.result = AuthResult("signUp", Null, Failure("signUp", provider))]
            /\ UNCHANGED <<currentUser, authCallbacks, initialized, listening, initPc>>
            /\ UNCHANGED <<now, cache, calls, scoreVars, respondVars, chatVars, session,
                           storage, op, href>>

\* encodeURIComponent: a character outside the unreserved ones becomes its
\* percent escape
RECURSIVE encodeURIComponent(_)
encodeURIComponent(s) ==
    IF s = <<>> THEN <<>>
    ELSE (CASE Head(s) = ":" -> <<"%", "3", "A">>
            [] Head(s) = "/" -> <<"%", "2", "F">>
            [] Head(s) = "?" -> <<"%", "3", "F">>
            [] Head(s) = "=" -> <<"%", "3", "D">>
            [] Head(s) = "&" -> <<"%", "2", "6">>
            [] Head(s) = "%" -> <<"%", "2", "5">>
            [] OTHER -> <<Head(s)>>) \o encodeURIComponent(Tail(s))

\* the assignment of a relative URL to window.location.href: it is resolved
\* against the directory of the page
Navigate(base, relative) ==
    LET query == IF \E i \in DOMAIN base : base[i] = "?"
                 THEN CHOOSE i \in DOMAIN base :
                          base[i] = "?" /\ \A j \in 1..(i - 1) : base[j] # "?"
                 ELSE Len(base) + 1
        slash == CHOOSE i \in 1..(query - 1) :
                     base[i] = "/" /\ \A j \in (i + 1)..(query - 1) : base[j] # "/"
    IN  SubSeq(base, 1, slash) \o relative

LoginQuery == <<"l", "o", "g", "i", "n", ".", "h", "t", "m", "l", "?", "r", "e", "d", "i", "r", "e", "c", "t", "=">>
\* the redirectUrl arguments: none (null, or the empty text, as falsy) or a
\* page of the application
RedirectUrls == {<<>>, <<"/", "p", "?", "x", "=", "%", "&", "y">>}

\* requireAuth writing returnUrl into the query as it is
requireAuth_unencoded(redirectUrl) ==
    LET returnUrl == IF redirectUrl # <<>> THEN redirectUrl ELSE href
        loginUrl == LoginQuery \o returnUrl
        h == [Handler("requireAuth", "", currentUser, "", <<>>, FALSE) EXCEPT
                 !.requests = <<[call |-> "requireAuth", redirectUrl |-> redirectUrl,
                                 href |-> href]>>]
    IN  /\ IF ~isAuthenticated
           THEN /\ Len(Navigate(href, loginUrl)) <= MaxHref
                /\ href' = Navigate(href, loginUrl)
                /\ handled' = [h EXCEPT !.result = Return(FALSE)]
           ELSE /\ href' = href
                /\ handled' = [h EXCEPT !.result = Return(TRUE)]
        /\ UNCHANGED <<currentUser, authCallbacks, initialized, listening, initPc>>
        /\ UNCHANGED <<now, cache, calls, scoreVars, respondVars, chatVars, crudVars>>

\* lines 427-435
requireAuth(redirectUrl) ==
    LET returnUrl == IF redirectUrl # <<>> THEN redirectUrl ELSE href
        loginUrl == LoginQuery \o encodeURIComponent(returnUrl)
        h == [Handler("requireAuth", "", currentUser, "", <<>>, FALSE) EXCEPT
                 !.requests = <<[call |-> "requireAuth", redirectUrl |-> redirectUrl,
                                 href |-> href]>>]
    IN  /\ IF ~isAuthenticated
           THEN /\ Len(Navigate(href, loginUrl)) <= MaxHref
                /\ href' = Navigate(href, loginUrl)
                /\ handled' = [h EXCEPT !.result = Return(FALSE)]
           ELSE /\ href' = href
                /\ handled' = [h EXCEPT !.result = Return(TRUE)]
        /\ UNCHANGED <<currentUser, authCallbacks, initialized, listening, initPc>>
        /\ UNCHANGED <<now, cache, calls, scoreVars, respondVars, chatVars, crudVars>>

\* the manager as constructed (lines 9-14), init awaiting the session
AuthInit == IdleExcept({})

AuthNext ==
    \/ init
    \/ \E e \in AuthEvents : AuthStateChanged(e[1], e[2])
    \/ \E callback \in Observers : onAuthStateChange(callback)
    \/ \E callback \in Observers : removeAuthStateCallback(callback)

AuthSpec == AuthInit /\ [][AuthNext]_vars

\* the manager with its methods, and one observer to register and remove
MethodsNext ==
    \/ init
    \/ \E e \in AuthEvents : AuthStateChanged(e[1], e[2])
    \/ onAuthStateChange("p1")
    \/ removeAuthStateCallback("p1")
    \/ \E m \in AuthMethods : AuthMethod(m[1], m[2])
    \/ signUp
    \/ \E redirectUrl \in RedirectUrls : requireAuth(redirectUrl)

MethodsSpec == AuthInit /\ [][MethodsNext]_vars

(***************************************************************************)
(* Properties of the AuthManager                                           *)
(***************************************************************************)
Range(f) == {f[i] : i \in DOMAIN f}
Invoked(h) == {h.calls[i].observer : i \in DOMAIN h.calls}

\* every call of the handler had the arguments (user, event), and the
\* observer read the same user from getCurrentUser()
CallsCarry(h, user, event) ==
    \A i \in DOMAIN h.calls :
        /\ h.calls[i].user = user
        /\ h.calls[i].event = event
        /\ h.calls[i].seen = user

\* one sequence is the other with some elements left out
RECURSIVE IsSubSeq(_, _)
IsSubSeq(a, b) ==
    IF a = <<>> THEN TRUE
    ELSE IF b = <<>> THEN FALSE
    ELSE IF Head(a) = Head(b) THEN IsSubSeq(Tail(a), Tail(b))
    ELSE IsSubSeq(a, Tail(b))

\* C19 as stated: on an auth event currentUser is the event's user and
\* every observer registered when the event arrived, and registered still,
\* was invoked with (currentUser, event) and read the same user.
C19_Original ==
    handled.kind = "event" =>
        /\ currentUser = handled.user
        /\ CallsCarry(handled, currentUser, handled.event)
        /\ \A o \in Range(handled.before) \cap Range(authCallbacks) : o \in Invoked(handled)

InvokedInOrder(h) == [i \in DOMAIN h.calls |-> h.calls[i].observer]

\* C27 as stated: on an auth event the observers invoked are the observers
\* registered when the event arrived, each once and in registration order,
\* whatever the observers remove meanwhile.
C27_Original == handled.kind = "event" => InvokedInOrder(handled) = handled.before

\* C28: on an auth event in which an observer threw, currentUser is the
\* event's user, the thrower is still registered, the observers called
\* are callbacks registered at the event's arrival in list order, and unless
\* a callback was removed during the event they are all of them: the throw
\* keeps no later observer from its call.
C28_ThrowContained ==
    handled.kind = "event" /\ "bad" \in Invoked(handled) =>
        /\ currentUser = handled.user
        /\ "bad" \in Range(authCallbacks)
        /\ IsSubSeq(InvokedInOrder(handled), handled.before)
        /\ authCallbacks = handled.before => InvokedInOrder(handled) = handled.before

\* the thrower was registered first and p1 after it; a sign-in of A called both
C28_Witness ==
    /\ handled.kind = "event"
    /\ handled.before = <<"bad", "p1">>
    /\ InvokedInOrder(handled) = <<"bad", "p1">>
    /\ currentUser = User("A")
    /\ authCallbacks = <<"bad", "p1">>

MethodNames == {m[1] : m \in AuthMethods} \cup {"signUp"}

\* C21: a step that changes currentUser is init or the listener of the
\* identity provider's events, no step of signUp, signIn, signInWithGoogle,
\* signInWithGitHub, signOut, resetPassword, updatePassword, updateProfile or
\* refreshSession changes it, and isAuthenticated() holds exactly when
\* currentUser is not null, before and after every step.
C21_OnlyInitAndEvents ==
    [][/\ currentUser' # currentUser => handled'.kind \in {"init", "event"}
       /\ handled'.kind \in MethodNames => currentUser' = currentUser
       /\ isAuthenticated <=> currentUser # Null
       /\ isAuthenticated' <=> currentUser' # Null]_vars

\* signIn was accepted by the provider for A and currentUser is null still:
\* it is the SIGNED_IN event that will set it
C21_Witness ==
    /\ handled.kind = "signIn"
    /\ handled.result = Return([data |-> User("A"), error |-> Null])
    /\ initialized
    /\ currentUser = Null
    /\ ~isAuthenticated

ProviderAccepted(h) == h.requests # <<>> /\ h.requests[1].outcome = "ok"
ProfileInserts(h) == {i \in DOMAIN h.requests : h.requests[i].call = "insert"}

\* C22: a signUp the provider accepted returns {data, error: null} with the
\* user whatever the insert of the profile row answered; a duplicate key is
\* logged as a profile created, any other failure as an error; and a signUp
\* the provider did not accept attempted no insert and returns its error.
C22_ProfileNotCritical ==
    handled.kind = "signUp" =>
        IF ProviderAccepted(handled)
        THEN /\ handled.result = Return([data |-> handled.user, error |-> Null])
             /\ \A i \in ProfileInserts(handled) :
                   /\ handled.requests[i].outcome = "23505"
                         => handled.console = <<"User signed up:", "User profile created">>
                   /\ handled.requests[i].outcome \in {"error", "raise"}
                         => handled.console = <<"User signed up:", "Create profile error:">>
        ELSE /\ ProfileInserts(handled) = {}
             /\ handled.result.value.data = Null
             /\ handled.result.value.error = Failure("signUp", handled.requests[1].outcome)

\* the provider accepted the sign-up of A, the insert of the profile row
\* raised, and signUp returned the user without error
C22_Witness ==
    /\ handled.kind = "signUp"
    /\ ProviderAccepted(handled)
    /\ \E i \in ProfileInserts(handled) : handled.requests[i].outcome = "raise"
    /\ handled.result = Return([data |-> User("A"), error |-> Null])

\* the place of the first ch in s, or one past its end
IndexOf(s, ch) ==
    IF \E i \in DOMAIN s : s[i] = ch
    THEN CHOOSE i \in DOMAIN s : s[i] = ch /\ \A j \in 1..(i - 1) : s[j] # ch
    ELSE Len(s) + 1
Before(s, ch) == SubSeq(s, 1, IndexOf(s, ch) - 1)
After(s, ch) == SubSeq(s, IndexOf(s, ch) + 1, Len(s))

\* the text of a percent-encoded text
RECURSIVE decodeURIComponent(_)
decodeURIComponent(s) ==
    IF s = <<>> THEN <<>>
    ELSE IF Head(s) = "%" /\ Len(s) >= 3
    THEN (CASE SubSeq(s, 2, 3) = <<"3", "A">> -> <<":">>
            [] SubSeq(s, 2, 3) = <<"2", "F">> -> <<"/">>
            [] SubSeq(s, 2, 3) = <<"3", "F">> -> <<"?">>
            [] SubSeq(s, 2, 3) = <<"3", "D">> -> <<"=">>
            [] SubSeq(s, 2, 3) = <<"2", "6">> -> <<"&">>
            [] SubSeq(s, 2, 3) = <<"2", "5">> -> <<"%">>
            [] OTHER -> <<"?", "?">>) \o decodeURIComponent(SubSeq(s, 4, Len(s)))
    ELSE <<Head(s)>> \o decodeURIComponent(Tail(s))

\* the value of the parameter name in a query, the way a page reads it:
\* the pairs are parted at "&", a pair at its first "=", the value decoded
RECURSIVE SearchParam(_, _)
SearchParam(query, name) ==
    IF query = <<>> THEN <<"n", "o", "n", "e">>
    ELSE IF Before(Before(query, "&"), "=") = name
    THEN decodeURIComponent(After(Before(query, "&"), "="))
    ELSE SearchParam(After(query, "&"), name)

LoginPage == <<"h", "t", "t", "p", ":", "/", "/", "h", "/", "l", "o", "g", "i", "n", ".", "h", "t", "m", "l">>
RedirectName == <<"r", "e", "d", "i", "r", "e", "c", "t">>

\* C23: a requireAuth with no current user leaves the window at the login
\* page, whose redirect parameter reads as the redirectUrl given, else as the
\* page the call was made on, and returns false; a requireAuth with a current
\* user returns true and changes nothing but the record of the call.
C23_RequireAuth ==
    [][handled'.kind = "requireAuth" =>
          LET call == handled'.requests[1]
          IN  /\ call.href = href
              /\ handled'.user = currentUser
              /\ UNCHANGED <<currentUser, authCallbacks, initialized, listening, initPc>>
              /\ UNCHANGED <<now, cache, calls, scoreVars, respondVars, chatVars, crudVars>>
              /\ IF currentUser = Null
                 THEN /\ handled'.result = Return(FALSE)
                      /\ Before(href', "?") = LoginPage
                      /\ SearchParam(After(href', "?"), RedirectName)
                            = IF call.redirectUrl # <<>> THEN call.redirectUrl ELSE href
                 ELSE /\ handled'.result = Return(TRUE)
                      /\ href' = href]_vars

\* requireAuth was called without argument and without user on the home
\* page, whose address holds "&": the window is at the login page
C23_Witness ==
    /\ handled.kind = "requireAuth"
    /\ handled.user = Null
    /\ handled.requests[1].redirectUrl = <<>>
    /\ handled.requests[1].href = HomePage
    /\ handled.result = Return(FALSE)
    /\ Before(href, "?") = LoginPage
    /\ SearchParam(After(href, "?"), RedirectName) = HomePage

\* C26 as stated: while a user is signed in, the rows that sendChatMessage
\* has saved carry the user's id, so that they are among the rows
\* getChatHistory selects for the user.
C26_Original ==
    session # Null => \A i \in DOMAIN chat_history : chat_history[i].user_id = session.id

FilePaths == {r.file_path : r \in db.health_reports}
AllSucceeded(o) == \A i \in DOMAIN o.requests : o.requests[i].outcome = "ok"

\* C29: a step that adds a health_reports row is an uploadHealthReport whose
\* upload succeeded before the insert, and the row's file is in the bucket;
\* an uploadHealthReport whose upload failed adds no row; and from a state
\* where the files of the bucket are the file_path values of the rows, an
\* operation whose storage and database calls all succeed leads to such a
\* state again.
C29_RowsAndFiles ==
    [][/\ db'.health_reports # db.health_reports /\ ~(db'.health_reports \subseteq db.health_reports)
          => /\ op'.name = "uploadHealthReport"
             /\ op'.requests[1] = StorageReq("upload", op'.requests[1].path, "ok")
             /\ op'.requests[3].call = "insert"
             /\ \A r \in db'.health_reports \ db.health_reports :
                   r.file_path = op'.requests[1].path /\ r.file_path \in storage'
       /\ op'.name = "uploadHealthReport" /\ op'.requests # <<>>
             /\ op'.requests[1].outcome # "ok"
          => db'.health_reports = db.health_reports /\ Len(op'.requests) = 1
       /\ storage = FilePaths /\ AllSucceeded(op') => storage' = FilePaths']_vars

\* A has uploaded a report and deleted it again, every call having
\* succeeded: no row and no file are left
C29_Witness ==
    /\ op.name = "deleteHealthReport"
    /\ op.user = User("A")
    /\ Len(op.requests) = 3
    /\ AllSucceeded(op)
    /\ db.health_reports = {}
    /\ storage = {}

Notes(a, title) == {n \in db.notifications : n.appointment_id = a.id /\ n.title = title}

\* C30: every appointment has exactly one Appointment Scheduled
\* notification, and exactly one Appointment Cancelled notification if it is
\* cancelled and none if it is not, however often it has been cancelled or
\* rescheduled since; and every notification belongs to the user of its
\* appointment.
C30_OneNotificationPerTransition ==
    /\ \A a \in db.appointments :
          /\ Cardinality(Notes(a, "Appointment Scheduled")) = 1
          /\ Cardinality(Notes(a, "Appointment Cancelled"))
                = IF a.status = "cancelled" THEN 1 ELSE 0
    /\ \A n \in db.notifications :
          /\ n.title \in {"Appointment Scheduled", "Appointment Cancelled"}
          /\ \E a \in db.appointments : a.id = n.appointment_id /\ a.user_id = n.user_id

\* A has rescheduled an appointment that was cancelled already: it has its
\* two notifications and no more
C30_Witness ==
    /\ op.name = "rescheduleAppointment"
    /\ op.user = User("A")
    /\ op.result = Ok([id |-> 1, user_id |-> "A", status |-> "cancelled", date |-> "d2"])
    /\ Cardinality(db.notifications) = 2
    /\ \A n \in db.notifications : n.user_id = "A" /\ n.appointment_id = 1

(***************************************************************************)
(* The schema seen from a signed-in client, src/unnamed/part_000: the      *)
(* row-level-security policies for SELECT (lines 208-305) and the          *)
(* functions granted to the role authenticated (lines 396-453, 568-609,    *)
(* 734-778).  Rows carry their owner and nothing of the time: the windows  *)
(* of days in the functions are left out, every row counting as recent.    *)
(***************************************************************************)
\* auth.uid(): the id of the signed-in user, NULL without one
auth_uid == IF session = Null THEN NullId ELSE session.id

\* a = b of SQL as a condition: NULL on either side does not pass
SqlEq(a, b) == a # NullId /\ b # NullId /\ a = b

\* the rows of a table, chat_history being kept as a list
TableRows(table) ==
    IF table = "chat_history" THEN {chat_history[i] : i \in DOMAIN chat_history}
    ELSE db[table]

\* the USING condition of the table's policy FOR SELECT
SelectPolicy(table, row) ==
    IF table = "chat_history"
    THEN SqlEq(auth_uid, row.user_id) \/ row.user_id = NullId
    ELSE SqlEq(auth_uid, row.user_id)

\* the functions of lines 774-777, each as what it reads for user_uuid;
\* SECURITY DEFINER: the policies do not apply inside them
SqlFunction(name, user_uuid) ==
    LET of(table) == {r \in TableRows(table) : SqlEq(r.user_id, user_uuid)}
        count(table) == Cardinality(of(table))
        cancelled == Cardinality({a \in of("appointments") : a.status = "cancelled"})
    IN  CASE name = "get_user_health_summary" ->
                [total_reports |-> count("health_reports"),
                 upcoming_appointments |-> count("appointments") - cancelled,
                 recent_symptoms |-> count("symptoms"),
                 medications_count |-> count("medications"),
                 emergency_contacts |-> count("emergency_contacts")]
          [] name = "get_symptom_trends" ->
                [symptom_count |-> count("symptoms")]
          [] name = "calculate_health_score" ->
                [score |-> Max(100 - count("symptoms") * 5 - cancelled * 10
                               + (count("medications") * 2) \div 30, 0)]
          [] name = "backup_user_data" ->
                [user_profile |-> of("user_profiles"),
                 health_reports |-> of("health_reports"),
                 appointments |-> of("appointments"),
                 symptoms |-> of("symptoms"),
                 medications |-> of("medications"),
                 emergency_contacts |-> of("emergency_contacts"),
                 chat_history |-> of("chat_history")]
SqlFunctions ==
    {"get_user_health_summary", "get_symptom_trends", "calculate_health_score",
     "backup_user_data"}

SqlFrame ==
    UNCHANGED <<now, cache, calls, scoreVars, respondVars, chatVars, db, storage, authVars>>

\* a user signs in, or the user signs out
SqlSession(u) ==
    /\ session' = u
    /\ op' = NoOp
    /\ SqlFrame

\* SELECT * FROM table by the signed-in user: the rows the policy passes
SqlSelect(table) ==
    /\ session # Null
    /\ op' = OpRecord("select", session, 0, <<Req("select", table, auth_uid, 0, "ok")>>,
                      Return(List({r \in TableRows(table) : SelectPolicy(table, r)})), <<>>)
    /\ UNCHANGED session
    /\ SqlFrame

\* SELECT name(user_uuid) by the signed-in user
SqlCall(name, user_uuid) ==
    /\ session # Null
    /\ op' = OpRecord(name, session, 0, <<Req("rpc", name, user_uuid, 0, "ok")>>,
                      Return(SqlFunction(name, user_uuid)), <<>>)
    /\ UNCHANGED session
    /\ SqlFrame

\* the tables hold a row of each user of some set of users, one appointment
\* cancelled; the chat history is empty, or holds an exchange saved for A or
\* one saved without owner
SqlInit ==
    /\ session = Null
    /\ storage = {}
    /\ op = NoOp
    /\ \E owners \in SUBSET Users, cancelled \in SUBSET Users :
          db = [t \in OwnerTables |->
                   {IF t = "appointments" /\ u \in cancelled
                    THEN [RowOf(t, 1, u) EXCEPT !.status = "cancelled"]
                    ELSE RowOf(t, 1, u) : u \in owners}]
    /\ chats = [c \in ChatCalls |-> IdleChat]
    /\ chat_history \in SeqsUpTo({[user_id |-> o, user_message |-> Keywords.inhaler,
                                   ai_response |-> Responses.medication]
                                     : o \in {"A", NullId}}, 1)
    /\ IdleExcept({"chat", "crud"})

SqlNext ==
    \/ \E u \in {Null} \cup {User(id) : id \in Users} : SqlSession(u)
    \/ \E table \in OwnerTables \cup {"chat_history"} : SqlSelect(table)
    \/ \E name \in SqlFunctions, user_uuid \in Users : SqlCall(name, user_uuid)

SqlSpec == SqlInit /\ [][SqlNext]_vars

\* C24 as stated: the rows a signed-in user selects from an
\* owner-partitioned table are rows whose user_id is the user's id.
C24_Original ==
    op.name = "select" => \A r \in op.result.value.items : r.user_id = op.user.id

\* C25 as stated: what one of the four functions returns to a signed-in
\* caller is what it derives from the caller's own rows.
C25_Original ==
    op.name \in SqlFunctions => op.result = Return(SqlFunction(op.name, op.user.id))

====
